---- MODULE Spec2Model ----
\* claw-spawn: the provisioning saga (create_bot, spawn_bot, destroy_bot,
\* pause_bot, redeploy_bot), the lifecycle reconciler (create_bot_config,
\* acknowledge_config, record_heartbeat) and the repository layer they call.
\* Every .await of a handler is one atomic step of the task that runs it;
\* tasks interleave between steps.  Every store write and IaaS call may fail.
EXTENDS Integers, Sequences, FiniteSets, TLC

VARIABLES
    quota,      \* per-account quota counter row: [current, max]
    bots,       \* table bots: bot id -> row (DOMAIN = the rows that exist)
    configs,    \* table bot_configs: config id -> [bot_id, version]
    droplets,   \* table droplets: droplet id -> [status, bot_id]
    iaas,       \* the IaaS: droplet id -> "new" | "active" | "off" | "gone"
    verAlloc,   \* the version allocator: bot id -> last version handed out
    nextBot,    \* fresh ids (Uuid::new_v4, the IaaS droplet id, the random token)
    nextCfg,
    nextTok,
    pc,         \* task -> the await it is suspended at
    loc,        \* task -> the locals of the handler it runs
    hist,       \* history: what the finished calls returned
    faults,     \* store and IaaS failures injected so far
    calls,      \* requests taken so far
    now         \* the clock read by Utc::now()

ids == <<nextBot, nextCfg, nextTok>>
env == <<faults, calls>>
vars == <<quota, bots, configs, droplets, iaas, verAlloc, ids, pc, loc, hist, env, now>>

\* ------------------------------------------------------------------ bounds
NumTasks == 2
MaxBotIds == 3
MaxConfigIds == 3
MaxDroplets == 2
MaxTokens == 3
MaxFaults == 2
MaxCalls == 4
MaxDropletCalls == 3
MaxTime == 3
MaxTimeout == 2
MaxRuns == 3
MaxTokenLen == 2

Tasks == 1..NumTasks
Timeouts == 1..MaxTimeout
\* the maintenance caller that runs check_stale_bots, beside the request tasks
Sweeper == 0
Procs == Tasks \cup {Sweeper}
Accounts == {"acct"}

\* ------------------------------------------------- program constants, types
RETRY_ATTEMPTS == 3
MAX_BOT_NAME_LENGTH == 64

NULL == 0
NoToken == <<"NULL">>

\* domain/account.rs: the limit of a subscription tier
TierMaxBots(tier) ==
    CASE tier = "free" -> 0
      [] tier = "basic" -> 2
      [] tier = "pro" -> 4

\* domain/bot.rs: Bot::new
NewBot(account_id) ==
    [account_id |-> account_id, status |-> "pending", droplet_id |-> NULL,
     desired_config_version_id |-> NULL, applied_config_version_id |-> NULL,
     registration_token |-> NoToken, last_heartbeat_at |-> NULL,
     ever_desired |-> {}]

\* ever_desired is history, not a column: the values the row's
\* desired_config_version_id has held

\* ------------------------------------------------------- sanitize_bot_name
\* a string is a sequence of characters; of the classes 'a'..='z', 'A'..='Z'
\* and '0'..='9' one character each stands in
AllowedChars == {"a", "Z", "7", " ", "-", "_"}
OtherChars == {"#", "\t", "e-acute"}
NameChars == AllowedChars \cup OtherChars
\* char::is_whitespace, as far as NameChars goes
WhiteSpace == {" ", "\t"}

\* str::trim: from the first to the last character that is not whitespace
Trim(s) ==
    LET kept == {i \in DOMAIN s : s[i] \notin WhiteSpace} IN
        IF kept = {} THEN <<>>
        ELSE SubSeq(s, CHOOSE i \in kept : \A j \in kept : i <= j,
                       CHOOSE i \in kept : \A j \in kept : i >= j)

Take(s, n) == IF Len(s) > n THEN SubSeq(s, 1, n) ELSE s

sanitize_bot_name(name) ==
    LET sanitized == [i \in DOMAIN name |->
                        IF name[i] \in AllowedChars THEN name[i] ELSE "_"]
        trimmed == Trim(sanitized)
    IN  IF Len(trimmed) > MAX_BOT_NAME_LENGTH
        THEN Take(trimmed, MAX_BOT_NAME_LENGTH)
        ELSE trimmed

\* the names tried: up to MaxRuns runs of one character, of the lengths at
\* which the limit is met, missed by one and passed
RunLengths == {1, MAX_BOT_NAME_LENGTH - 1, MAX_BOT_NAME_LENGTH}
RunChars == {"a", " ", "#", "e-acute"}
Repeat(c, n) == [i \in 1..n |-> c]
RECURSIVE Expand(_)
Expand(runs) ==
    IF runs = <<>> THEN <<>>
    ELSE Repeat(runs[1][1], runs[1][2]) \o Expand(Tail(runs))
Names ==
    {Expand(runs) : runs \in UNION {[1..k -> RunChars \X RunLengths] : k \in 0..MaxRuns}}

\* name = sanitize_bot_name(&name), as create_bot calls it
SanitizeBotName(p) ==
    /\ pc[p] = "sanitize"
    /\ pc' = [pc EXCEPT ![p] = "done"]
    /\ loc' = [loc EXCEPT ![p].payload = sanitize_bot_name(loc[p].name)]
    /\ UNCHANGED <<quota, bots, configs, droplets, iaas, verAlloc, ids, hist, env, now>>

\* ------------------------------------------------------------ admin auth
\* An Option<T> is the set of its values: {} is None, {x} is Some(x).
\* A header value is a sequence of characters; to_str() answers only when all
\* of them are visible ASCII.
TokenChars == {"t", "u", " "}
HeaderChars == TokenChars \cup {"e-acute"}
to_str(v) == IF \A i \in DOMAIN v : v[i] # "e-acute" THEN {v} ELSE {}

strip_prefix_any(s, prefix) ==
    IF Len(s) >= Len(prefix) THEN {SubSeq(s, Len(prefix) + 1, Len(s))} ELSE {}

strip_prefix(s, prefix) ==
    IF Len(s) >= Len(prefix) /\ SubSeq(s, 1, Len(prefix)) = prefix
    THEN {SubSeq(s, Len(prefix) + 1, Len(s))}
    ELSE {}

Bearer == <<"B", "e", "a", "r", "e", "r", " ">>

\* headers: the set of Authorization header values of the request ({}: none)
extract_bearer_token(headers) ==
    {t \in UNION {strip_prefix(s, Bearer) : s \in UNION {to_str(v) : v \in headers}} :
        t # <<>>}

is_admin_authorized(headers, expected_token) ==
    /\ expected_token # <<>>
    /\ extract_bearer_token(headers) = {expected_token}

\* the requests and configurations the guard is applied to
SeqsUpTo(S, n) == UNION {[1..k -> S] : k \in 0..n}
Schemes ==
    {<<>>, Bearer, <<"b", "e", "a", "r", "e", "r", " ">>,
     <<"B", "e", "a", "r", "e", "r">>, <<" ">> \o Bearer,
     <<"B", "a", "s", "i", "c", " ">>}
HeaderMaps ==
    {{}} \cup {{s \o t} : s \in Schemes, t \in SeqsUpTo(HeaderChars, MaxTokenLen)}
ExpectedTokens == SeqsUpTo(TokenChars, MaxTokenLen)

\* the guard every admin handler begins with
AdminGuard(p) ==
    /\ pc[p] = "admin"
    /\ pc' = [pc EXCEPT ![p] = "done"]
    /\ loc' = [loc EXCEPT ![p] =
                 IF is_admin_authorized(loc[p].headers, loc[p].expected_token)
                 THEN [@ EXCEPT !.res = "Admitted"]
                 ELSE [@ EXCEPT !.res = "Unauthorized", !.http = 401]]
    /\ UNCHANGED <<quota, bots, configs, droplets, iaas, verAlloc, ids, hist, env, now>>

\* ---------------------------------------------------------- token digest
\* hex(sha256(s)): an injective image of s that never begins with the prefix
Sha256Hex(s) == <<"hex[">> \o s \o <<"]">>

hash_registration_token_plain(token) == token
hash_registration_token(token) == <<"sha256:">> \o Sha256Hex(token)

\* generate_registration_token: base64 of 32 fresh random bytes
generate_registration_token(n) == <<"b64", ToString(n)>>

\* ------------------------------------------------- BotRepository (Postgres)
\* An UPDATE or DELETE whose WHERE matches no row changes nothing and is Ok.
BotCreate(bs, id, bot) == bs @@ (id :> bot)

UpdateStatus(bs, id, status) ==
    IF id \in DOMAIN bs THEN [bs EXCEPT ![id].status = status] ELSE bs

UpdateDroplet(bs, id, droplet_id) ==
    IF id \in DOMAIN bs THEN [bs EXCEPT ![id].droplet_id = droplet_id] ELSE bs

UpdateConfigVersionSwapped(bs, id, desired, applied) ==
    IF id \in DOMAIN bs
    THEN [bs EXCEPT ![id].desired_config_version_id = applied,
                    ![id].applied_config_version_id = desired,
                    ![id].ever_desired = @ \cup ({applied} \ {NULL})]
    ELSE bs

UpdateConfigVersion(bs, id, desired, applied) ==
    IF id \in DOMAIN bs
    THEN [bs EXCEPT ![id].desired_config_version_id = desired,
                    ![id].applied_config_version_id = applied,
                    ![id].ever_desired = @ \cup ({desired} \ {NULL})]
    ELSE bs

UpdateHeartbeat(bs, id, t) ==
    IF id \in DOMAIN bs THEN [bs EXCEPT ![id].last_heartbeat_at = t] ELSE bs

\* list_stale_bots' WHERE clause, and the ids of the rows it selects
IsStaleNoStatus(row, threshold) ==
    row.last_heartbeat_at = NULL \/ row.last_heartbeat_at < threshold
IsStale(row, threshold) ==
    /\ row.status = "online"
    /\ \/ row.last_heartbeat_at # NULL /\ row.last_heartbeat_at < threshold
       \/ row.last_heartbeat_at = NULL
ListStaleBots(bs, threshold) == {id \in DOMAIN bs : IsStale(bs[id], threshold)}

UpdateRegistrationToken(bs, id, token) ==
    IF id \in DOMAIN bs
    THEN [bs EXCEPT ![id].registration_token = hash_registration_token(token)]
    ELSE bs

BotDeleteRemoves(bs, id) == [b \in DOMAIN bs \ {id} |-> bs[b]]
BotDelete(bs, id) ==
    IF id \in DOMAIN bs THEN [bs EXCEPT ![id].status = "destroyed"] ELSE bs

HardDelete(bs, id) == [b \in DOMAIN bs \ {id} |-> bs[b]]

\* The stored procedures behind increment_bot_counter / decrement_bot_counter
IncrementSucceeds(q) == q.current < q.max
IncrementBotCounterAlways(q) == [q EXCEPT !.current = @ + 1]
IncrementBotCounter(q) ==
    IF IncrementSucceeds(q) THEN [q EXCEPT !.current = q.current + 1] ELSE q
DecrementBotCounter(q) ==
    IF q.current > 0 THEN [q EXCEPT !.current = q.current - 1] ELSE q

\* UPDATE accounts SET subscription_tier = $1, max_bots = $2 WHERE id = $4
SubscriptionTiers == {"free", "basic", "pro"}
update_subscription_tier_only(q, tier) == [q EXCEPT !.subscription_tier = tier]
update_subscription(q, tier) ==
    [q EXCEPT !.subscription_tier = tier, !.max = TierMaxBots(tier)]

\* ------------------------------------------------- DropletRepository, IaaS
DropletCreate(ds, id, row) == ds @@ (id :> row)
UpdateBotAssignment(ds, id, bot_id) ==
    IF id \in DOMAIN ds THEN [ds EXCEPT ![id].bot_id = bot_id] ELSE ds
MarkDestroyed(ds, id) ==
    IF id \in DOMAIN ds THEN [ds EXCEPT ![id].status = "destroyed"] ELSE ds

\* ------------------------------------------------- ConfigRepository
\* a bot_configs row
ConfigRow(bot_id, version) == [bot_id |-> bot_id, version |-> version]

StoredVersions(cs, bot_id) ==
    {cs[c].version : c \in {x \in DOMAIN cs : cs[x].bot_id = bot_id}}

Max(S) == IF S = {} THEN 0 ELSE CHOOSE x \in S : \A y \in S : y <= x

LastAllocated(va, bot_id) == IF bot_id \in DOMAIN va THEN va[bot_id] ELSE 0

\* The stored procedure behind get_next_version_atomic: under a per-bot lock, a
\* value greater than every stored version of the bot and every value it
\* handed out before
GetNextVersionAtomic(cs, va, bot_id) ==
    Max(StoredVersions(cs, bot_id) \cup {LastAllocated(va, bot_id)}) + 1

\* Droplet::from_do_response: the row built from the IaaS answer (bot_id: None)
FromDoResponse(status) == [status |-> status, bot_id |-> NULL]

\* --------------------------------------------------------------- task frame
NoSnap == [NewBot("") EXCEPT !.status = "none"]

IdleLoc ==
    [op |-> "none", acct |-> "", bot |-> NULL, cfg |-> NULL, drop |-> NULL,
     tok |-> NoToken, snap |-> NoSnap, err |-> "", res |-> "", caller |-> "",
     ver |-> 0, delta |-> 0, lost |-> FALSE, rbfail |-> FALSE,
     again |-> FALSE, payload |-> <<>>, cleanups |-> 0,
     timeout |-> 0, threshold |-> 0, at |-> 0, pre |-> <<>>, post |-> <<>>,
     stale_bots |-> <<>>, todo |-> <<>>, name |-> <<>>, http |-> 0,
     headers |-> {}, expected_token |-> <<>>,
     outs |-> <<>>, attempts |-> 0, val |-> 0]

\* what a finished call leaves in the history
Record(h, l) ==
    CASE l.op = "create_bot" /\ l.res = "Ok" ->
           [h EXCEPT !.created = @ \cup {l.bot}]
      [] l.op = "destroy_bot" /\ l.res = "Ok" /\ l.bot \notin h.destroyed ->
           [h EXCEPT !.destroyed = @ \cup {l.bot},
                     !.lost = IF l.lost THEN @ \cup {l.bot} ELSE @]
      [] OTHER -> [h EXCEPT !.other = TRUE]

Goto(p, label, l) ==
    /\ pc' = [pc EXCEPT ![p] = label]
    /\ loc' = [loc EXCEPT ![p] = l]
    /\ hist' = hist
    /\ now' = now

\* the config_ack endpoint's `match state.lifecycle.acknowledge_config(..)`:
\* Ok(_) => StatusCode::OK, Err(_) => StatusCode::BAD_REQUEST
ConfigAckResponse(result) == IF result = "Ok" THEN 200 ELSE 400

\* the status code the HTTP edge answers with (0: an edge not modelled)
Respond(op, result) ==
    IF op = "acknowledge_config" THEN ConfigAckResponse(result) ELSE 0

Finish(p, result, l) ==
    /\ pc' = [pc EXCEPT ![p] = "done"]
    /\ loc' = [loc EXCEPT ![p] = [l EXCEPT !.res = result,
                                          !.http = Respond(l.op, result)]]
    /\ hist' = Record(hist, [l EXCEPT !.res = result])
    /\ now' = now

\* a store or IaaS call answers Ok, or fails (at most MaxFaults failures a run)
Outcome(ok) ==
    IF ok THEN faults' = faults ELSE faults < MaxFaults /\ faults' = faults + 1

\* an idle task takes the next request (idle tasks are interchangeable: the
\* lowest one takes it)
Accept(p) ==
    /\ pc[p] = "idle"
    /\ \A q \in Tasks : q < p => pc[q] # "idle"
    /\ calls < MaxCalls
    /\ calls' = calls + 1

\* the locals of a call that begins
Frame(p, op) == [IdleLoc EXCEPT !.op = op]

\* the handler has returned to the HTTP edge
Return(p) ==
    /\ pc[p] = "done"
    /\ pc' = [pc EXCEPT ![p] = "idle"]
    /\ loc' = [loc EXCEPT ![p] = IdleLoc]
    /\ UNCHANGED <<quota, bots, configs, droplets, iaas, verAlloc, ids, hist, env, now>>

\* ------------------------------------------------------------- create_bot
should_rollback_never(err) == FALSE
should_rollback_always(err) == TRUE
should_rollback_create_failure(err) == err # "RateLimited"

QuotaRefusedNever(success) == FALSE
QuotaRefused(success) == ~success

InitialConfigVersion == 1

\* create_bot's `match self.create_bot_internal(..)`: Ok, or the error e with
\* `if should_rollback_create_failure(&e)` the compensation before Err(e)
CreateInternalReturns(p, result, l) ==
    IF result # "Ok" /\ should_rollback_create_failure(result)
    THEN Goto(p, "cb_rollback_delete", [l EXCEPT !.err = result])
    ELSE Finish(p, result, l)

\* create_bot: account_repo.get_by_id, then Bot::new's and the config's fresh ids
CreateBotStart(p) ==
    /\ Accept(p)
    /\ nextBot <= MaxBotIds /\ nextCfg <= MaxConfigIds /\ nextTok <= MaxTokens
    /\ \E a \in Accounts, ok \in BOOLEAN :
         /\ Outcome(ok)
         /\ LET l == [Frame(p, "create_bot") EXCEPT !.acct = a, !.bot = nextBot,
                                 !.cfg = nextCfg,
                                 !.tok = generate_registration_token(nextTok)]
            IN  IF ok THEN Goto(p, "cb_increment", l) ELSE Finish(p, "Repository", l)
    /\ nextBot' = nextBot + 1 /\ nextCfg' = nextCfg + 1 /\ nextTok' = nextTok + 1
    /\ UNCHANGED <<quota, bots, configs, droplets, iaas, verAlloc>>

\* increment_bot_counter and the `if !success` that follows it
CreateBotIncrement(p) ==
    /\ pc[p] = "cb_increment"
    /\ \E ok \in BOOLEAN :
         /\ Outcome(ok)
         /\ LET l == loc[p]
                q == quota[l.acct]
            IN  IF ~ok
                THEN /\ quota' = quota
                     /\ Finish(p, "Repository", l)
                ELSE /\ quota' = [quota EXCEPT ![l.acct] = IncrementBotCounter(q)]
                     /\ IF QuotaRefused(IncrementSucceeds(q))
                        THEN Finish(p, "AccountLimitReached",
                                    [l EXCEPT !.payload = <<q.max>>])
                        ELSE Goto(p, "cb_insert_bot",
                                  [l EXCEPT !.delta = quota'[l.acct].current - q.current])
    /\ UNCHANGED <<bots, configs, droplets, iaas, verAlloc, ids, calls>>

\* create_bot_internal: bot_repo.create
CreateBotInsertBot(p) ==
    /\ pc[p] = "cb_insert_bot"
    /\ \E ok \in BOOLEAN :
         /\ Outcome(ok)
         /\ LET l == loc[p] IN
              IF ok
              THEN /\ bots' = BotCreate(bots, l.bot, NewBot(l.acct))
                   /\ Goto(p, "cb_insert_config", l)
              ELSE /\ bots' = bots
                   /\ CreateInternalReturns(p, "Repository", l)
    /\ UNCHANGED <<quota, configs, droplets, iaas, verAlloc, ids, calls>>

\* create_bot_internal: encryption.encrypt, then config_repo.create (version 1)
CreateBotInsertConfig(p) ==
    /\ pc[p] = "cb_insert_config"
    /\ \E out \in {"Ok", "Encryption", "Repository"} :
         /\ Outcome(out = "Ok")
         /\ LET l == loc[p] IN
              IF out = "Ok"
              THEN /\ configs' = configs @@
                         (l.cfg :> ConfigRow(l.bot, InitialConfigVersion))
                   /\ Goto(p, "cb_set_desired", l)
              ELSE /\ configs' = configs
                   /\ CreateInternalReturns(p, out, l)
    /\ UNCHANGED <<quota, bots, droplets, iaas, verAlloc, ids, calls>>

\* create_bot_internal: update_config_version(bot.id, Some(config.id), None)
CreateBotSetDesired(p) ==
    /\ pc[p] = "cb_set_desired"
    /\ \E ok \in BOOLEAN :
         /\ Outcome(ok)
         /\ LET l == loc[p] IN
              IF ok
              THEN /\ bots' = UpdateConfigVersion(bots, l.bot, l.cfg, NULL)
                   /\ Goto(p, "sp_status", [l EXCEPT !.caller = "create_bot"])
              ELSE /\ bots' = bots
                   /\ CreateInternalReturns(p, "Repository", l)
    /\ UNCHANGED <<quota, configs, droplets, iaas, verAlloc, ids, calls>>

\* where spawn_bot's result goes: back into create_bot or out of redeploy_bot
SpawnReturns(p, result, l) ==
    IF l.caller = "create_bot"
    THEN CreateInternalReturns(p, result, l)
    ELSE Finish(p, result, l)

\* ---------------------------------------------------------------- spawn_bot
\* update_status(bot.id, Provisioning)
SpawnStatus(p) ==
    /\ pc[p] = "sp_status"
    /\ \E ok \in BOOLEAN :
         /\ Outcome(ok)
         /\ LET l == loc[p] IN
              IF ok
              THEN /\ bots' = UpdateStatus(bots, l.bot, "provisioning")
                   /\ Goto(p, "sp_token", l)
              ELSE /\ bots' = bots
                   /\ SpawnReturns(p, "Repository", l)
    /\ UNCHANGED <<quota, configs, droplets, iaas, verAlloc, ids, calls>>

\* update_registration_token(bot.id, &registration_token)
SpawnToken(p) ==
    /\ pc[p] = "sp_token"
    /\ \E ok \in BOOLEAN :
         /\ Outcome(ok)
         /\ LET l == loc[p] IN
              IF ok
              THEN /\ bots' = UpdateRegistrationToken(bots, l.bot, l.tok)
                   /\ Goto(p, "sp_create_droplet", l)
              ELSE /\ bots' = bots
                   /\ SpawnReturns(p, "Repository", l)
    /\ UNCHANGED <<quota, configs, droplets, iaas, verAlloc, ids, calls>>

\* do_client.create_droplet: Ok(droplet), RateLimited, or another error.  The
\* IaaS hands out the droplet id; beyond MaxDroplets it has no capacity left.
SpawnCreateDroplet(p) ==
    /\ pc[p] = "sp_create_droplet"
    /\ \E out \in {"Ok", "RateLimited", "DigitalOcean"} :
         LET l == loc[p]
             d == Cardinality(DOMAIN iaas) + 1
         IN  /\ IF d > MaxDroplets
                THEN out # "Ok" /\ faults' = faults
                ELSE Outcome(out = "Ok")
             /\ IF out = "Ok"
                THEN /\ iaas' = iaas @@ (d :> "new")
                     /\ Goto(p, "sp_insert_droplet", [l EXCEPT !.drop = d])
                ELSE /\ iaas' = iaas
                     /\ Goto(p, "sp_failed_status", [l EXCEPT !.err = out])
    /\ UNCHANGED <<quota, bots, configs, droplets, verAlloc, ids, calls>>

\* the status written when create_droplet failed
StatusAfterCreateFailure(err) == IF err = "RateLimited" THEN "pending" ELSE "error"

\* update_status(bot.id, Pending | Error).await? and the return of the IaaS error
SpawnFailedStatus(p) ==
    /\ pc[p] = "sp_failed_status"
    /\ \E ok \in BOOLEAN :
         /\ Outcome(ok)
         /\ LET l == loc[p] IN
              IF ok
              THEN /\ bots' = UpdateStatus(bots, l.bot, StatusAfterCreateFailure(l.err))
                   /\ SpawnReturns(p, l.err, l)
              ELSE /\ bots' = bots
                   /\ SpawnReturns(p, "Repository", l)
    /\ UNCHANGED <<quota, configs, droplets, iaas, verAlloc, ids, calls>>

SpawnInsertDropletSkipped(p) ==
    /\ pc[p] = "sp_insert_droplet"
    /\ Goto(p, "sp_assign", loc[p])
    /\ UNCHANGED <<quota, bots, configs, droplets, iaas, verAlloc, ids, env>>

\* droplet_repo.create(&droplet)
SpawnInsertDroplet(p) ==
    /\ pc[p] = "sp_insert_droplet"
    /\ \E ok \in BOOLEAN :
         /\ Outcome(ok)
         /\ LET l == loc[p] IN
              IF ok
              THEN /\ droplets' = DropletCreate(droplets, l.drop, FromDoResponse("new"))
                   /\ Goto(p, "sp_assign", l)
              ELSE /\ droplets' = droplets
                   /\ Goto(p, "sp_cleanup_destroy", [l EXCEPT !.err = "Repository"])
    /\ UNCHANGED <<quota, bots, configs, iaas, verAlloc, ids, calls>>

\* droplet_repo.update_bot_assignment(droplet.id, Some(bot.id))
SpawnAssign(p) ==
    /\ pc[p] = "sp_assign"
    /\ \E ok \in BOOLEAN :
         /\ Outcome(ok)
         /\ LET l == loc[p] IN
              IF ok
              THEN /\ droplets' = UpdateBotAssignment(droplets, l.drop, l.bot)
                   /\ Goto(p, "sp_set_droplet", l)
              ELSE /\ droplets' = droplets
                   /\ Goto(p, "sp_cleanup_destroy", [l EXCEPT !.err = "Repository"])
    /\ UNCHANGED <<quota, bots, configs, iaas, verAlloc, ids, calls>>

\* bot_repo.update_droplet(bot.id, Some(droplet.id)); on Ok spawn_bot returns Ok
SpawnSetDroplet(p) ==
    /\ pc[p] = "sp_set_droplet"
    /\ \E ok \in BOOLEAN :
         /\ Outcome(ok)
         /\ LET l == loc[p] IN
              IF ok
              THEN /\ bots' = UpdateDroplet(bots, l.bot, l.drop)
                   /\ SpawnReturns(p, "Ok", l)
              ELSE /\ bots' = bots
                   /\ Goto(p, "sp_cleanup_destroy", [l EXCEPT !.err = "Repository"])
    /\ UNCHANGED <<quota, configs, droplets, iaas, verAlloc, ids, calls>>

SpawnCleanupDestroySkipped(p) ==
    /\ pc[p] = "sp_cleanup_destroy"
    /\ Goto(p, "sp_cleanup_status", loc[p])
    /\ UNCHANGED <<quota, bots, configs, droplets, iaas, verAlloc, ids, env>>

\* DB persistence failed: do_client.destroy_droplet(droplet.id), result only logged
SpawnCleanupDestroy(p) ==
    /\ pc[p] = "sp_cleanup_destroy"
    /\ \E ok \in BOOLEAN :
         /\ Outcome(ok)
         /\ LET l == loc[p] IN
              /\ iaas' = IF ok THEN [iaas EXCEPT ![l.drop] = "gone"] ELSE iaas
              /\ Goto(p, "sp_cleanup_status", [l EXCEPT !.cleanups = @ + 1])
    /\ UNCHANGED <<quota, bots, configs, droplets, verAlloc, ids, calls>>

\* update_status(bot.id, Error), result only logged; return the DB error
SpawnCleanupStatus(p) ==
    /\ pc[p] = "sp_cleanup_status"
    /\ \E ok \in BOOLEAN :
         /\ Outcome(ok)
         /\ LET l == loc[p] IN
              /\ bots' = IF ok THEN UpdateStatus(bots, l.bot, "error") ELSE bots
              /\ SpawnReturns(p, l.err, l)
    /\ UNCHANGED <<quota, configs, droplets, iaas, verAlloc, ids, calls>>

\* ------------------------------------------------- create_bot: compensation
\* hard_delete(bot.id), its error only logged
CreateBotRollbackDelete(p) ==
    /\ pc[p] = "cb_rollback_delete"
    /\ \E ok \in BOOLEAN :
         /\ Outcome(ok)
         /\ LET l == loc[p] IN
              /\ bots' = IF ok THEN HardDelete(bots, l.bot) ELSE bots
              /\ Goto(p, "cb_rollback_decrement", [l EXCEPT !.rbfail = ~ok])
    /\ UNCHANGED <<quota, configs, droplets, iaas, verAlloc, ids, calls>>

\* decrement_bot_counter(account_id), its error only logged; return the error
CreateBotRollbackDecrement(p) ==
    /\ pc[p] = "cb_rollback_decrement"
    /\ \E ok \in BOOLEAN :
         /\ Outcome(ok)
         /\ LET l == loc[p]
                q == quota[l.acct]
            IN  /\ quota' = IF ok THEN [quota EXCEPT ![l.acct] = DecrementBotCounter(q)]
                                  ELSE quota
                /\ Finish(p, l.err,
                          [l EXCEPT !.delta = @ + quota'[l.acct].current - q.current,
                                    !.rbfail = @ \/ ~ok])
    /\ UNCHANGED <<bots, configs, droplets, iaas, verAlloc, ids, calls>>

CreateBotStep(p) ==
    \/ CreateBotStart(p)
    \/ CreateBotIncrement(p)
    \/ CreateBotInsertBot(p)
    \/ CreateBotInsertConfig(p)
    \/ CreateBotSetDesired(p)
    \/ CreateBotRollbackDelete(p)
    \/ CreateBotRollbackDecrement(p)

SpawnStep(p) ==
    \/ SpawnStatus(p)
    \/ SpawnToken(p)
    \/ SpawnCreateDroplet(p)
    \/ SpawnFailedStatus(p)
    \/ SpawnInsertDroplet(p)
    \/ SpawnAssign(p)
    \/ SpawnSetDroplet(p)
    \/ SpawnCleanupDestroy(p)
    \/ SpawnCleanupStatus(p)

\* ------------------------------------------------------- retry_with_backoff
\* outs[i]: whether the i-th invocation of the operation answers Ok
RECURSIVE RetryFrom(_, _)
RetryFrom(outs, attempt) ==
    IF attempt < RETRY_ATTEMPTS
    THEN IF outs[attempt]
         THEN [ok |-> TRUE, attempts |-> attempt]
         ELSE RetryFrom(outs, attempt + 1)
    ELSE [ok |-> outs[attempt], attempts |-> attempt]

\* a single invocation, never retried
retry_once(outs) == [ok |-> outs[1], attempts |-> 1]

retry_with_backoff(outs) == RetryFrom(outs, 1)

RetryOutcomes == [1..RETRY_ATTEMPTS -> BOOLEAN]

\* what one invocation of the operation `f` answers: Ok(val) or Err(val)
MaxRetryVals == 3
RetryResults == [ok : BOOLEAN, val : 1..MaxRetryVals]

\* the value retry_with_backoff returns is the answer of the last invocation it
\* made: `Ok(result) => return Ok(result)` in the loop, the final `match f()`
\* after it
retry_returns(outs) ==
    LET r == retry_with_backoff([i \in 1..RETRY_ATTEMPTS |-> outs[i].ok])
    IN [result |-> outs[r.attempts], attempts |-> r.attempts]

\* the bot ids a caller can name: those handed out so far
KnownBots == 1..(nextBot - 1)

\* -------------------------------------------------------------- destroy_bot
\* bot_repo.get_by_id(bot_id)?, then `if let Some(droplet_id) = bot.droplet_id`
DestroyStart(p) ==
    /\ Accept(p)
    /\ \E b \in KnownBots, ok \in BOOLEAN :
         /\ Outcome(ok)
         /\ LET l == [Frame(p, "destroy_bot") EXCEPT !.bot = b,
                                     !.again = b \in hist.destroyed] IN
              IF ~ok THEN Finish(p, "Repository", l)
              ELSE IF b \notin DOMAIN bots THEN Finish(p, "NotFound", l)
              ELSE LET m == [l EXCEPT !.snap = bots[b], !.acct = bots[b].account_id,
                                      !.drop = bots[b].droplet_id]
                   IN  IF m.drop # NULL THEN Goto(p, "db_iaas", m)
                                        ELSE Goto(p, "db_clear", m)
    /\ UNCHANGED <<quota, bots, configs, droplets, iaas, verAlloc, ids>>

\* the IaaS answers destroy_droplet: Ok for a droplet it has, NotFound for one
\* it no longer has, or an error
IaasDestroyAnswer(status, ok) ==
    IF ~ok THEN "DigitalOcean" ELSE IF status = "gone" THEN "NotFound" ELSE "Ok"

DestroyContinuesOkOnly(answer) == answer = "Ok"
DestroyContinues(answer) == answer \in {"Ok", "NotFound"}

\* do_client.destroy_droplet(droplet_id)
DestroyIaas(p) ==
    /\ pc[p] = "db_iaas"
    /\ \E ok \in BOOLEAN :
         /\ Outcome(ok)
         /\ LET l == loc[p]
                answer == IaasDestroyAnswer(iaas[l.drop], ok)
            IN  /\ iaas' = IF answer = "Ok" THEN [iaas EXCEPT ![l.drop] = "gone"] ELSE iaas
                /\ IF DestroyContinues(answer)
                   THEN Goto(p, "db_mark", l)
                   ELSE Finish(p, answer, l)
    /\ UNCHANGED <<quota, bots, configs, droplets, verAlloc, ids, calls>>

\* retry_with_backoff("mark_destroyed", ..): droplet_repo.mark_destroyed(droplet_id)
DestroyMark(p) ==
    /\ pc[p] = "db_mark"
    /\ \E outs \in RetryOutcomes :
         LET l == loc[p]
             r == retry_with_backoff(outs)
         IN  /\ Outcome(r.ok)
             /\ IF r.ok
                THEN /\ droplets' = MarkDestroyed(droplets, l.drop)
                     /\ Goto(p, "db_clear", l)
                ELSE /\ droplets' = droplets
                     /\ Finish(p, "Repository", l)
    /\ UNCHANGED <<quota, bots, configs, iaas, verAlloc, ids, calls>>

\* retry_with_backoff("update_droplet", ..): bot_repo.update_droplet(bot_id, None)
DestroyClear(p) ==
    /\ pc[p] = "db_clear"
    /\ \E outs \in RetryOutcomes :
         LET l == loc[p]
             r == retry_with_backoff(outs)
         IN  /\ Outcome(r.ok)
             /\ IF r.ok
                THEN /\ bots' = UpdateDroplet(bots, l.bot, NULL)
                     /\ Goto(p, "db_delete", l)
                ELSE /\ bots' = bots
                     /\ Finish(p, "Repository", l)
    /\ UNCHANGED <<quota, configs, droplets, iaas, verAlloc, ids, calls>>

\* retry_with_backoff("delete_bot", ..): bot_repo.delete(bot_id)
DestroyDelete(p) ==
    /\ pc[p] = "db_delete"
    /\ \E outs \in RetryOutcomes :
         LET l == loc[p]
             r == retry_with_backoff(outs)
         IN  /\ Outcome(r.ok)
             /\ IF r.ok
                THEN /\ bots' = BotDelete(bots, l.bot)
                     /\ Goto(p, "db_decrement", l)
                ELSE /\ bots' = bots
                     /\ Finish(p, "Repository", l)
    /\ UNCHANGED <<quota, configs, droplets, iaas, verAlloc, ids, calls>>

\* destroy_bot returning after delete, the counter left alone
DestroyDecrementSkipped(p) ==
    /\ pc[p] = "db_decrement"
    /\ Finish(p, "Ok", loc[p])
    /\ UNCHANGED <<quota, bots, configs, droplets, iaas, verAlloc, ids, env>>

\* retry_with_backoff("decrement_bot_counter", ..): its failure is only logged
DestroyDecrement(p) ==
    /\ pc[p] = "db_decrement"
    /\ \E outs \in RetryOutcomes :
         LET l == loc[p]
             r == retry_with_backoff(outs)
             q == quota[l.acct]
         IN  /\ Outcome(r.ok)
             /\ quota' = IF r.ok THEN [quota EXCEPT ![l.acct] = DecrementBotCounter(q)]
                                 ELSE quota
             /\ Finish(p, "Ok", [l EXCEPT !.delta = quota'[l.acct].current - q.current,
                                          !.lost = ~r.ok])
    /\ UNCHANGED <<bots, configs, droplets, iaas, verAlloc, ids, calls>>

DestroyStep(p) ==
    \/ DestroyStart(p)
    \/ DestroyIaas(p)
    \/ DestroyMark(p)
    \/ DestroyClear(p)
    \/ DestroyDelete(p)
    \/ DestroyDecrement(p)

\* the config ids a caller can name: those handed out so far
KnownConfigs == 1..(nextCfg - 1)

\* -------------------------------------------------------- create_bot_config
\* bot_repo.get_by_id(bot_id)? and the refusal of a destroyed bot
ConfigStart(p) ==
    /\ Accept(p)
    /\ nextCfg <= MaxConfigIds
    /\ \E b \in KnownBots, ok \in BOOLEAN :
         /\ Outcome(ok)
         /\ LET l == [Frame(p, "create_bot_config") EXCEPT !.bot = b, !.cfg = nextCfg] IN
              IF ~ok THEN Finish(p, "Repository", l)
              ELSE IF b \notin DOMAIN bots THEN Finish(p, "NotFound", l)
              ELSE IF bots[b].status = "destroyed"
                   THEN Finish(p, "InvalidState", [l EXCEPT !.snap = bots[b]])
                   ELSE Goto(p, "cc_alloc", [l EXCEPT !.snap = bots[b]])
    /\ nextCfg' = nextCfg + 1
    /\ UNCHANGED <<quota, bots, configs, droplets, iaas, verAlloc, nextBot, nextTok>>

\* config_repo.get_next_version_atomic(bot_id)?
ConfigAlloc(p) ==
    /\ pc[p] = "cc_alloc"
    /\ \E ok \in BOOLEAN :
         /\ Outcome(ok)
         /\ LET l == loc[p]
                v == GetNextVersionAtomic(configs, verAlloc, l.bot)
            IN  IF ok
                THEN /\ verAlloc' = [x \in DOMAIN verAlloc \cup {l.bot} |->
                                        IF x = l.bot THEN v ELSE verAlloc[x]]
                     /\ Goto(p, "cc_insert", [l EXCEPT !.ver = v])
                ELSE /\ verAlloc' = verAlloc
                     /\ Finish(p, "Repository", l)
    /\ UNCHANGED <<quota, bots, configs, droplets, iaas, ids, calls>>

\* config_repo.create(&config_with_version)?
ConfigInsert(p) ==
    /\ pc[p] = "cc_insert"
    /\ \E ok \in BOOLEAN :
         /\ Outcome(ok)
         /\ LET l == loc[p] IN
              IF ok
              THEN /\ configs' = configs @@ (l.cfg :> ConfigRow(l.bot, l.ver))
                   /\ Goto(p, "cc_set_desired", l)
              ELSE /\ configs' = configs
                   /\ Finish(p, "Repository", l)
    /\ UNCHANGED <<quota, bots, droplets, iaas, verAlloc, ids, calls>>

\* update_config_version(bot_id, Some(new id), bot.applied_config_version_id)?
ConfigSetDesired(p) ==
    /\ pc[p] = "cc_set_desired"
    /\ \E ok \in BOOLEAN :
         /\ Outcome(ok)
         /\ LET l == loc[p] IN
              IF ok
              THEN /\ bots' = UpdateConfigVersion(bots, l.bot, l.cfg,
                                                  l.snap.applied_config_version_id)
                   /\ Finish(p, "Ok", l)
              ELSE /\ bots' = bots
                   /\ Finish(p, "Repository", l)
    /\ UNCHANGED <<quota, configs, droplets, iaas, verAlloc, ids, calls>>

ConfigStep(p) ==
    \/ ConfigStart(p)
    \/ ConfigAlloc(p)
    \/ ConfigInsert(p)
    \/ ConfigSetDesired(p)

\* ------------------------------------------------------- acknowledge_config
AckConflictNever(desired, config_id) == FALSE
AckConflict(desired, config_id) == desired # config_id

AckPromotesNever(status) == FALSE
AckPromotes(status) == status \in {"provisioning", "pending"}

\* config_repo.get_by_id(config_id)? and `if config.bot_id != bot_id`
AckStart(p) ==
    /\ Accept(p)
    /\ \E b \in KnownBots, c \in KnownConfigs, ok \in BOOLEAN :
         /\ Outcome(ok)
         /\ LET l == [Frame(p, "acknowledge_config") EXCEPT !.bot = b, !.cfg = c] IN
              IF ~ok THEN Finish(p, "Repository", l)
              ELSE IF c \notin DOMAIN configs THEN Finish(p, "NotFound", l)
              ELSE IF configs[c].bot_id # b THEN Finish(p, "ConfigNotFound", l)
              ELSE Goto(p, "ak_get_bot", l)
    /\ UNCHANGED <<quota, bots, configs, droplets, iaas, verAlloc, ids>>

\* bot_repo.get_by_id(bot_id)? and the check of desired_config_version_id
AckGetBot(p) ==
    /\ pc[p] = "ak_get_bot"
    /\ \E ok \in BOOLEAN :
         /\ Outcome(ok)
         /\ LET l == loc[p] IN
              IF ~ok THEN Finish(p, "Repository", l)
              ELSE IF l.bot \notin DOMAIN bots THEN Finish(p, "NotFound", l)
              ELSE LET m == [l EXCEPT !.snap = bots[l.bot]] IN
                   IF AckConflict(m.snap.desired_config_version_id, l.cfg)
                   THEN Finish(p, "ConfigVersionConflict",
                               [m EXCEPT !.payload =
                                    <<l.cfg, m.snap.desired_config_version_id>>])
                   ELSE Goto(p, "ak_update", m)
    /\ UNCHANGED <<quota, bots, configs, droplets, iaas, verAlloc, ids, calls>>

\* update_config_version(bot_id, Some(config_id), Some(config_id))?
AckUpdate(p) ==
    /\ pc[p] = "ak_update"
    /\ \E ok \in BOOLEAN :
         /\ Outcome(ok)
         /\ LET l == loc[p] IN
              IF ~ok
              THEN /\ bots' = bots
                   /\ Finish(p, "Repository", l)
              ELSE /\ bots' = UpdateConfigVersion(bots, l.bot, l.cfg, l.cfg)
                   /\ IF AckPromotes(l.snap.status)
                      THEN Goto(p, "ak_status", l)
                      ELSE Finish(p, "Ok", l)
    /\ UNCHANGED <<quota, configs, droplets, iaas, verAlloc, ids, calls>>

\* update_status(bot_id, Online)?
AckStatus(p) ==
    /\ pc[p] = "ak_status"
    /\ \E ok \in BOOLEAN :
         /\ Outcome(ok)
         /\ LET l == loc[p] IN
              IF ok
              THEN /\ bots' = UpdateStatus(bots, l.bot, "online")
                   /\ Finish(p, "Ok", l)
              ELSE /\ bots' = bots
                   /\ Finish(p, "Repository", l)
    /\ UNCHANGED <<quota, configs, droplets, iaas, verAlloc, ids, calls>>

AckStep(p) ==
    \/ AckStart(p)
    \/ AckGetBot(p)
    \/ AckUpdate(p)
    \/ AckStatus(p)

\* ---------------------------------------------------------------- pause_bot
\* the IaaS answers shutdown_droplet: Ok for a droplet it has, else an error
IaasShutdownOk(status, ok) == ok /\ status # "gone"

\* bot_repo.get_by_id(bot_id)?, then `if let Some(droplet_id) = bot.droplet_id`
PauseStart(p) ==
    /\ Accept(p)
    /\ \E b \in KnownBots, ok \in BOOLEAN :
         /\ Outcome(ok)
         /\ LET l == [Frame(p, "pause_bot") EXCEPT !.bot = b] IN
              IF ~ok THEN Finish(p, "Repository", l)
              ELSE IF b \notin DOMAIN bots THEN Finish(p, "NotFound", l)
              ELSE LET m == [l EXCEPT !.snap = bots[b], !.drop = bots[b].droplet_id]
                   IN  IF m.drop # NULL THEN Goto(p, "pa_shutdown", m)
                                        ELSE Goto(p, "pa_status", m)
    /\ UNCHANGED <<quota, bots, configs, droplets, iaas, verAlloc, ids>>

\* do_client.shutdown_droplet(droplet_id)?
PauseShutdown(p) ==
    /\ pc[p] = "pa_shutdown"
    /\ \E ok \in BOOLEAN :
         LET l == loc[p]
             done == IaasShutdownOk(iaas[l.drop], ok)
         IN  /\ IF iaas[l.drop] = "gone" THEN faults' = faults ELSE Outcome(ok)
             /\ IF done
                THEN /\ iaas' = [iaas EXCEPT ![l.drop] = "off"]
                     /\ Goto(p, "pa_status", l)
                ELSE /\ iaas' = iaas
                     /\ Finish(p, "DigitalOcean", l)
    /\ UNCHANGED <<quota, bots, configs, droplets, verAlloc, ids, calls>>

\* a pause that also gives the bot's slot back to its account
PauseStatusFreesSlot(p) ==
    /\ pc[p] = "pa_status"
    /\ LET l == loc[p]
           a == bots[l.bot].account_id
       IN /\ bots' = UpdateStatus(bots, l.bot, "paused")
          /\ quota' = [quota EXCEPT ![a] = DecrementBotCounter(@)]
          /\ Finish(p, "Ok", l)
    /\ UNCHANGED <<configs, droplets, iaas, verAlloc, ids, env>>

\* update_status(bot_id, Paused)?
PauseStatus(p) ==
    /\ pc[p] = "pa_status"
    /\ \E ok \in BOOLEAN :
         /\ Outcome(ok)
         /\ LET l == loc[p] IN
              IF ok
              THEN /\ bots' = UpdateStatus(bots, l.bot, "paused")
                   /\ Finish(p, "Ok", l)
              ELSE /\ bots' = bots
                   /\ Finish(p, "Repository", l)
    /\ UNCHANGED <<quota, configs, droplets, iaas, verAlloc, ids, calls>>

PauseStep(p) == PauseStart(p) \/ PauseShutdown(p) \/ PauseStatus(p)

\* --------------------------------------------------------------- resume_bot
\* resume_bot without the check of the status it read
ResumeStartAnyStatus(p) ==
    /\ Accept(p)
    /\ \E b \in KnownBots, ok \in BOOLEAN :
         /\ Outcome(ok)
         /\ LET l == [Frame(p, "resume_bot") EXCEPT !.bot = b] IN
              IF ~ok THEN Finish(p, "Repository", l)
              ELSE IF b \notin DOMAIN bots THEN Finish(p, "NotFound", l)
              ELSE LET m == [l EXCEPT !.snap = bots[b], !.drop = bots[b].droplet_id]
                   IN  IF m.drop = NULL
                       THEN Finish(p, "InvalidConfig", m)
                       ELSE Goto(p, "rs_get_droplet", m)
    /\ UNCHANGED <<quota, bots, configs, droplets, iaas, verAlloc, ids>>

\* bot_repo.get_by_id(bot_id)?, `if bot.status != BotStatus::Paused`, then
\* `if let Some(droplet_id) = bot.droplet_id`
ResumeStart(p) ==
    /\ Accept(p)
    /\ \E b \in KnownBots, ok \in BOOLEAN :
         /\ Outcome(ok)
         /\ LET l == [Frame(p, "resume_bot") EXCEPT !.bot = b] IN
              IF ~ok THEN Finish(p, "Repository", l)
              ELSE IF b \notin DOMAIN bots THEN Finish(p, "NotFound", l)
              ELSE LET m == [l EXCEPT !.snap = bots[b], !.drop = bots[b].droplet_id]
                   IN  IF m.snap.status # "paused" \/ m.drop = NULL
                       THEN Finish(p, "InvalidConfig", m)
                       ELSE Goto(p, "rs_get_droplet", m)
    /\ UNCHANGED <<quota, bots, configs, droplets, iaas, verAlloc, ids>>

\* do_client.get_droplet(droplet_id) and the match on droplet.status
ResumeGetDroplet(p) ==
    /\ pc[p] = "rs_get_droplet"
    /\ \E ok \in BOOLEAN :
         LET l == loc[p]
             status == iaas[l.drop]
         IN  /\ IF status = "gone" THEN faults' = faults ELSE Outcome(ok)
             /\ IF status = "gone" THEN Finish(p, "InvalidConfig", l)
                ELSE IF ~ok THEN Finish(p, "DigitalOcean", l)
                ELSE IF status = "off" THEN Goto(p, "rs_reboot", l)
                ELSE IF status = "active" THEN Goto(p, "rs_status", l)
                ELSE Finish(p, "InvalidConfig", l)
    /\ UNCHANGED <<quota, bots, configs, droplets, iaas, verAlloc, ids, calls>>

\* do_client.reboot_droplet(droplet_id)?
ResumeReboot(p) ==
    /\ pc[p] = "rs_reboot"
    /\ \E ok \in BOOLEAN :
         LET l == loc[p]
             done == ok /\ iaas[l.drop] # "gone"
         IN  /\ IF iaas[l.drop] = "gone" THEN faults' = faults ELSE Outcome(ok)
             /\ IF done
                THEN /\ iaas' = [iaas EXCEPT ![l.drop] = "active"]
                     /\ Goto(p, "rs_status", l)
                ELSE /\ iaas' = iaas
                     /\ Finish(p, "DigitalOcean", l)
    /\ UNCHANGED <<quota, bots, configs, droplets, verAlloc, ids, calls>>

\* update_status(bot_id, Online)?
ResumeStatus(p) ==
    /\ pc[p] = "rs_status"
    /\ \E ok \in BOOLEAN :
         /\ Outcome(ok)
         /\ LET l == loc[p] IN
              IF ok
              THEN /\ bots' = UpdateStatus(bots, l.bot, "online")
                   /\ Finish(p, "Ok", l)
              ELSE /\ bots' = bots
                   /\ Finish(p, "Repository", l)
    /\ UNCHANGED <<quota, configs, droplets, iaas, verAlloc, ids, calls>>

ResumeStep(p) ==
    \/ ResumeStart(p)
    \/ ResumeGetDroplet(p)
    \/ ResumeReboot(p)
    \/ ResumeStatus(p)

\* --------------------------------------------------------- record_heartbeat
\* bot_repo.update_heartbeat(bot_id)?
RecordHeartbeat(p) ==
    /\ Accept(p)
    /\ \E b \in KnownBots, ok \in BOOLEAN :
         /\ Outcome(ok)
         /\ LET l == [Frame(p, "record_heartbeat") EXCEPT !.bot = b] IN
              IF ok
              THEN /\ bots' = UpdateHeartbeat(bots, b, now)
                   /\ Finish(p, "Ok", l)
              ELSE /\ bots' = bots
                   /\ Finish(p, "Repository", l)
    /\ UNCHANGED <<quota, configs, droplets, iaas, verAlloc, ids>>

\* ------------------------------------------------------ update_subscription
\* account_repo.update_subscription(id, tier): one UPDATE statement
UpdateSubscription(p) ==
    /\ Accept(p)
    /\ \E a \in Accounts, tier \in SubscriptionTiers, ok \in BOOLEAN :
         /\ Outcome(ok)
         /\ LET l == [Frame(p, "update_subscription") EXCEPT !.acct = a] IN
              IF ok
              THEN /\ quota' = [quota EXCEPT ![a] = update_subscription(@, tier)]
                   /\ Finish(p, "Ok", l)
              ELSE /\ quota' = quota
                   /\ Finish(p, "Repository", l)
    /\ UNCHANGED <<bots, configs, droplets, iaas, verAlloc, ids>>

\* --------------------------------------------------------- check_stale_bots
\* the orders in which fetch_all may return the selected rows (no ORDER BY)
Orders(S) ==
    {s \in [1..Cardinality(S) -> S] : \A i, j \in DOMAIN s : i # j => s[i] # s[j]}

\* threshold = Utc::now() - heartbeat_timeout; bot_repo.list_stale_bots(threshold)?
\* A run may begin while the caller still holds the result of the run before:
\* `again` notes a run that follows a successful one at once, with the same
\* timeout and clock, and `payload` what that run returned.
CheckStaleStart ==
    /\ pc[Sweeper] \in {"idle", "done"}
    /\ \E heartbeat_timeout \in Timeouts, ok \in BOOLEAN :
         /\ Outcome(ok)
         /\ LET threshold == now - heartbeat_timeout
                last == loc[Sweeper]
                follows == /\ pc[Sweeper] = "done" /\ last.res = "Ok"
                           /\ last.timeout = heartbeat_timeout /\ last.at = now
                l == [Frame(Sweeper, "check_stale_bots") EXCEPT
                         !.timeout = heartbeat_timeout, !.threshold = threshold,
                         !.at = now, !.pre = bots,
                         !.again = follows,
                         !.payload = IF follows THEN last.stale_bots ELSE <<>>]
            IN  IF ok
                THEN \E stale_bots \in Orders(ListStaleBots(bots, threshold)) :
                        Goto(Sweeper, "sw_mark", [l EXCEPT !.stale_bots = stale_bots,
                                                           !.todo = stale_bots])
                ELSE Finish(Sweeper, "Repository", [l EXCEPT !.post = bots])
    /\ UNCHANGED <<quota, bots, configs, droplets, iaas, verAlloc, ids, calls>>

CheckStaleMarkSkipped ==
    /\ pc[Sweeper] = "sw_mark"
    /\ LET l == loc[Sweeper] IN
         IF l.todo = <<>>
         THEN Finish(Sweeper, "Ok", [l EXCEPT !.post = bots])
         ELSE Goto(Sweeper, "sw_mark", [l EXCEPT !.todo = Tail(@)])
    /\ UNCHANGED <<quota, bots, configs, droplets, iaas, verAlloc, ids, env>>

\* one turn of `for bot in &stale_bots`: update_status(bot.id, Error)?, or the
\* end of the loop and Ok(stale_bots)
CheckStaleMark ==
    /\ pc[Sweeper] = "sw_mark"
    /\ LET l == loc[Sweeper] IN
         IF l.todo = <<>>
         THEN /\ bots' = bots
              /\ faults' = faults
              /\ Finish(Sweeper, "Ok", [l EXCEPT !.post = bots])
         ELSE \E ok \in BOOLEAN :
                 /\ Outcome(ok)
                 /\ IF ok
                    THEN /\ bots' = UpdateStatus(bots, Head(l.todo), "error")
                         /\ Goto(Sweeper, "sw_mark", [l EXCEPT !.todo = Tail(@)])
                    ELSE /\ bots' = bots
                         /\ Finish(Sweeper, "Repository", [l EXCEPT !.post = bots])
    /\ UNCHANGED <<quota, configs, droplets, iaas, verAlloc, ids, calls>>

CheckStaleStep == CheckStaleStart \/ CheckStaleMark

\* time passes
Tick ==
    /\ now < MaxTime
    /\ now' = now + 1
    /\ UNCHANGED <<quota, bots, configs, droplets, iaas, verAlloc, ids, pc, loc, hist, env>>

\* ------------------------------------------------------------- redeploy_bot
\* config_repo.get_latest_for_bot: the bot's config of the highest version
GetLatestForBot(cs, bot_id) ==
    LET mine == {c \in DOMAIN cs : cs[c].bot_id = bot_id} IN
    IF mine = {} THEN NULL
    ELSE CHOOSE c \in mine : \A d \in mine : cs[d].version <= cs[c].version

\* bot_repo.get_by_id(bot_id)?; spawn_bot will issue a fresh registration token
RedeployStart(p) ==
    /\ Accept(p)
    /\ nextTok <= MaxTokens
    /\ \E b \in KnownBots, ok \in BOOLEAN :
         /\ Outcome(ok)
         /\ LET l == [Frame(p, "redeploy_bot") EXCEPT !.bot = b, !.caller = "redeploy_bot",
                          !.tok = generate_registration_token(nextTok)] IN
              IF ~ok THEN Finish(p, "Repository", l)
              ELSE IF b \notin DOMAIN bots THEN Finish(p, "NotFound", l)
              ELSE LET m == [l EXCEPT !.snap = bots[b], !.drop = bots[b].droplet_id]
                   IN  IF m.drop # NULL THEN Goto(p, "rd_iaas", m)
                                        ELSE Goto(p, "rd_latest", m)
    /\ nextTok' = nextTok + 1
    /\ UNCHANGED <<quota, bots, configs, droplets, iaas, verAlloc, nextBot, nextCfg>>

\* redeploy_bot going on without the destroy_droplet call
RedeployIaasSkipped(p) ==
    /\ pc[p] = "rd_iaas"
    /\ Goto(p, "rd_mark", loc[p])
    /\ UNCHANGED <<quota, bots, configs, droplets, iaas, verAlloc, ids, env>>

\* do_client.destroy_droplet(droplet_id): Ok | NotFound continue, else return
RedeployIaas(p) ==
    /\ pc[p] = "rd_iaas"
    /\ \E ok \in BOOLEAN :
         /\ Outcome(ok)
         /\ LET l == loc[p]
                answer == IaasDestroyAnswer(iaas[l.drop], ok)
            IN  /\ iaas' = IF answer = "Ok" THEN [iaas EXCEPT ![l.drop] = "gone"] ELSE iaas
                /\ IF answer \in {"Ok", "NotFound"}
                   THEN Goto(p, "rd_mark", l)
                   ELSE Finish(p, answer, l)
    /\ UNCHANGED <<quota, bots, configs, droplets, verAlloc, ids, calls>>

\* droplet_repo.mark_destroyed(droplet_id)?
RedeployMark(p) ==
    /\ pc[p] = "rd_mark"
    /\ \E ok \in BOOLEAN :
         /\ Outcome(ok)
         /\ LET l == loc[p] IN
              IF ok
              THEN /\ droplets' = MarkDestroyed(droplets, l.drop)
                   /\ Goto(p, "rd_latest", l)
              ELSE /\ droplets' = droplets
                   /\ Finish(p, "Repository", l)
    /\ UNCHANGED <<quota, bots, configs, iaas, verAlloc, ids, calls>>

\* config_repo.get_latest_for_bot(bot_id)?.ok_or_else(InvalidConfig)?, then
\* bot.droplet_id = None (in memory) and spawn_bot
RedeployLatest(p) ==
    /\ pc[p] = "rd_latest"
    /\ \E ok \in BOOLEAN :
         /\ Outcome(ok)
         /\ LET l == loc[p]
                c == GetLatestForBot(configs, l.bot)
            IN  IF ~ok THEN Finish(p, "Repository", l)
                ELSE IF c = NULL THEN Finish(p, "InvalidConfig", l)
                ELSE Goto(p, "sp_status", [l EXCEPT !.cfg = c, !.drop = NULL])
    /\ UNCHANGED <<quota, bots, configs, droplets, iaas, verAlloc, ids, calls>>

RedeployStep(p) ==
    \/ RedeployStart(p)
    \/ RedeployIaas(p)
    \/ RedeployMark(p)
    \/ RedeployLatest(p)

\* ----------------------------------------------------- get_by_id_with_token
\* the strings a caller can present: a token that was issued, the digest of
\* one, or a string that is neither
IssuedTokens == {generate_registration_token(n) : n \in 1..(nextTok - 1)}
PresentedTokens ==
    IssuedTokens \cup {hash_registration_token(t) : t \in IssuedTokens}
                 \cup {<<"guess">>}

\* WHERE id = $1 AND (registration_token = $2 OR registration_token = $3),
\* $2 the presented string and $3 its digest
TokenMatchesAny(stored, token) == stored # NoToken
TokenMatches(stored, token) ==
    stored # NoToken /\ (stored = token \/ stored = hash_registration_token(token))

GetByIdWithToken(p) ==
    /\ Accept(p)
    /\ \E b \in KnownBots, t \in PresentedTokens, ok \in BOOLEAN :
         /\ Outcome(ok)
         /\ LET l == [Frame(p, "get_by_id_with_token") EXCEPT !.bot = b, !.tok = t] IN
              IF ~ok THEN Finish(p, "Repository", l)
              ELSE IF b \in DOMAIN bots /\ TokenMatches(bots[b].registration_token, t)
                   THEN Finish(p, "Ok", [l EXCEPT !.snap = bots[b]])
                   ELSE Finish(p, "NotFound", l)
    /\ UNCHANGED <<quota, bots, configs, droplets, iaas, verAlloc, ids>>

\* ------------------------------------------------------------ specifications
\* accounts are created by the edge (Account::new) before any bot operation;
\* the quota row of an account starts at zero with the tier's limit
InitStore ==
    /\ \E tier \in {"free", "basic"} :
         quota = [a \in Accounts |->
                    [current |-> 0, max |-> TierMaxBots(tier),
                     subscription_tier |-> tier]]
    /\ bots = <<>>
    /\ configs = <<>>
    /\ droplets = <<>>
    /\ iaas = <<>>
    /\ verAlloc = <<>>
    /\ nextBot = 1 /\ nextCfg = 1 /\ nextTok = 1
    /\ now = 1
    /\ hist = [created |-> {}, destroyed |-> {}, lost |-> {}, other |-> FALSE]
    /\ faults = 0
    /\ calls = 0

Init ==
    /\ InitStore
    /\ pc = [p \in Procs |-> "idle"]
    /\ loc = [p \in Procs |-> IdleLoc]

\* only create_bot calls, any number of them concurrently
NextCreate == \E p \in Tasks : CreateBotStep(p) \/ SpawnStep(p) \/ Return(p)
SpecCreate == Init /\ [][NextCreate]_vars

\* create_bot and redeploy_bot calls
NextRedeploy ==
    \E p \in Tasks : CreateBotStep(p) \/ SpawnStep(p) \/ RedeployStep(p) \/ Return(p)
SpecRedeploy == Init /\ [][NextRedeploy]_vars

\* create_bot, destroy_bot and redeploy_bot calls, MaxDropletCalls of them
NextDroplet ==
    \E p \in Tasks :
        /\ \/ CreateBotStep(p) \/ SpawnStep(p) \/ DestroyStep(p) \/ RedeployStep(p)
           \/ Return(p)
        /\ calls' <= MaxDropletCalls
SpecDroplet == Init /\ [][NextDroplet]_vars

\* create_bot and destroy_bot calls
NextQuota ==
    \E p \in Tasks : CreateBotStep(p) \/ SpawnStep(p) \/ DestroyStep(p) \/ Return(p)
SpecQuota == Init /\ [][NextQuota]_vars

\* create_bot, create_bot_config and acknowledge_config calls
NextConfig ==
    \E p \in Tasks :
        CreateBotStep(p) \/ SpawnStep(p) \/ ConfigStep(p) \/ AckStep(p) \/ Return(p)
SpecConfig == Init /\ [][NextConfig]_vars

\* the same calls made one at a time: a task steps only while the others rest
Solo(p) == \A q \in Procs \ {p} : pc[q] \in {"idle", "done"}
NextAck ==
    \E p \in Tasks :
        /\ Solo(p)
        /\ CreateBotStep(p) \/ SpawnStep(p) \/ ConfigStep(p) \/ AckStep(p) \/ Return(p)
SpecAck == Init /\ [][NextAck]_vars

\* every operation, the calls made one at a time
NextOps ==
    \E p \in Tasks :
        /\ Solo(p)
        /\ \/ CreateBotStep(p) \/ SpawnStep(p) \/ DestroyStep(p)
           \/ ConfigStep(p) \/ AckStep(p)
           \/ PauseStep(p) \/ RecordHeartbeat(p) \/ RedeployStep(p)
           \/ GetByIdWithToken(p)
           \/ Return(p)
SpecOps == Init /\ [][NextOps]_vars

\* create, destroy, pause, resume and redeploy calls, made one at a time
NextCounter ==
    \E p \in Tasks :
        /\ Solo(p)
        /\ \/ CreateBotStep(p) \/ SpawnStep(p) \/ DestroyStep(p)
           \/ PauseStep(p) \/ ResumeStep(p) \/ RedeployStep(p)
           \/ Return(p)
SpecCounter == Init /\ [][NextCounter]_vars

\* create, acknowledge_config, pause, resume and destroy calls, concurrently,
\* MaxDropletCalls of them
NextOnline ==
    \E p \in Tasks :
        /\ \/ CreateBotStep(p) \/ SpawnStep(p) \/ AckStep(p)
           \/ PauseStep(p) \/ ResumeStep(p) \/ DestroyStep(p)
           \/ Return(p)
        /\ calls' <= MaxDropletCalls
SpecOnline == Init /\ [][NextOnline]_vars

\* every request task has returned
Returned == \A p \in Tasks : pc[p] = "idle"

\* the operations that are not to touch the counter, after the create_bot
\* calls that give them bots, one call at a time (MaxDropletCalls requests in
\* all) with check_stale_bots runs between them, while time passes
NextFrame ==
    \/ Returned /\ pc[Sweeper] = "idle" /\ Tick
    \/ Returned /\ (CheckStaleStep \/ Return(Sweeper))
    \/ \E p \in Tasks :
          /\ Solo(p) /\ pc[Sweeper] = "idle"
          /\ \/ CreateBotStep(p) \/ SpawnStep(p) \/ ConfigStep(p) \/ AckStep(p)
             \/ PauseStep(p) \/ ResumeStep(p) \/ RedeployStep(p) \/ RecordHeartbeat(p)
             \/ Return(p)
          /\ calls' <= MaxDropletCalls
SpecFrame == Init /\ [][NextFrame]_vars

\* check_stale_bots runs between the calls that bring bots online and record
\* their heartbeats, one call at a time, while time passes; a run may follow
\* another at once, and requests are taken after a run has returned
NextSweep ==
    \/ Returned /\ Tick
    \/ Returned /\ (CheckStaleStep \/ Return(Sweeper))
    \/ \E p \in Tasks :
          /\ Solo(p) /\ pc[Sweeper] = "idle"
          /\ \/ CreateBotStep(p) \/ SpawnStep(p) \/ AckStep(p) \/ RecordHeartbeat(p)
             \/ Return(p)
SpecSweep == Init /\ [][NextSweep]_vars

\* a check_stale_bots run begins while no call is under way; the calls that
\* follow (one at a time, MaxDropletCalls in all) run concurrently with it
NextStale ==
    \/ Returned /\ pc[Sweeper] = "idle" /\ Tick
    \/ /\ IF pc[Sweeper] = "idle" THEN Returned ELSE pc[Sweeper] # "done"
       /\ CheckStaleStep
    \/ Return(Sweeper)
    \/ \E p \in Tasks :
          /\ \A q \in Tasks \ {p} : pc[q] \in {"idle", "done"}
          /\ pc[Sweeper] # "done"
          /\ \/ CreateBotStep(p) \/ SpawnStep(p) \/ AckStep(p) \/ RecordHeartbeat(p)
             \/ PauseStep(p)
             \/ Return(p)
          /\ calls' <= MaxDropletCalls
SpecStale == Init /\ [][NextStale]_vars

\* sanitize_bot_name on its own, applied to each of Names
InitSanitize ==
    /\ InitStore
    /\ pc = [p \in Procs |-> IF p = 1 THEN "sanitize" ELSE "idle"]
    /\ \E name \in Names :
          loc = [p \in Procs |->
                   IF p = 1
                   THEN [IdleLoc EXCEPT !.op = "sanitize_bot_name", !.name = name]
                   ELSE IdleLoc]
NextSanitize == SanitizeBotName(1)
SpecSanitize == InitSanitize /\ [][NextSanitize]_vars

\* create_bot calls and subscription changes, concurrently
NextSubscription ==
    \E p \in Tasks :
       CreateBotStep(p) \/ SpawnStep(p) \/ UpdateSubscription(p) \/ Return(p)
SpecSubscription == Init /\ [][NextSubscription]_vars

\* ------------------------------------------------- DigitalOceanClient calls
MAX_RETRIES == 3

\* a status that is retried after
is_retryable_any(status) == status >= 500
is_retryable_status(status) == status \in {500, 502, 503}

\* what `send().await` gives: 0 for Err(e) (no response), else the status of
\* the response
HttpAnswers == {0, 200, 404, 429, 500, 502, 503, 504}

\* one iteration of `for attempt in 0..MAX_RETRIES`: the request is sent and
\* its answer matched; loc.attempts is the loop variable, loc.outs the answers
\* received so far
DoSend(p) ==
    /\ pc[p] = "do_send"
    /\ \E status \in HttpAnswers, parsed \in BOOLEAN :
          LET attempt == loc[p].attempts
              op == loc[p].op
              l == [loc[p] EXCEPT !.attempts = @ + 1, !.outs = Append(@, status)]
          IN IF status = 0
             THEN IF attempt < MAX_RETRIES - 1
                  THEN Goto(p, "do_send", l)
                  ELSE Finish(p, "RequestFailed", l)
             ELSE IF status = 429
             THEN Finish(p, "RateLimited", l)
             ELSE IF status = 404 /\ op \in {"get_droplet", "destroy_droplet"}
             THEN Finish(p, "NotFound", l)
             ELSE IF is_retryable_status(status) /\ attempt < MAX_RETRIES - 1
             THEN Goto(p, "do_send", l)
             ELSE IF status \notin 200..299
             THEN Finish(p, IF op = "create_droplet" THEN "CreationFailed"
                                                     ELSE "RequestFailed", l)
             ELSE IF op \in {"create_droplet", "get_droplet"} /\ ~parsed
             THEN Finish(p, "InvalidResponse", l)
             ELSE Finish(p, "Ok", l)
    /\ UNCHANGED <<quota, bots, configs, droplets, iaas, verAlloc, ids, env>>

\* each operation of the client on its own
InitAdapter ==
    /\ InitStore
    /\ pc = [p \in Procs |-> IF p = 1 THEN "do_send" ELSE "idle"]
    /\ \E op \in {"create_droplet", "get_droplet", "destroy_droplet",
                   "shutdown_droplet", "reboot_droplet"} :
          loc = [p \in Procs |-> IF p = 1 THEN [IdleLoc EXCEPT !.op = op]
                                          ELSE IdleLoc]
NextAdapter == DoSend(1)
SpecAdapter == InitAdapter /\ [][NextAdapter]_vars

\* retry_with_backoff on its own, applied to every sequence of answers the
\* operation can give
InitRetry ==
    /\ InitStore
    /\ pc = [p \in Procs |-> IF p = 1 THEN "retry" ELSE "idle"]
    /\ \E outs \in [1..RETRY_ATTEMPTS -> RetryResults] :
          loc = [p \in Procs |->
                   IF p = 1
                   THEN [IdleLoc EXCEPT !.op = "retry_with_backoff", !.outs = outs]
                   ELSE IdleLoc]
NextRetry ==
    /\ pc[1] = "retry"
    /\ LET r == retry_returns(loc[1].outs)
       IN /\ pc' = [pc EXCEPT ![1] = "done"]
          /\ loc' = [loc EXCEPT ![1] =
                       [@ EXCEPT !.res = IF r.result.ok THEN "Ok" ELSE "Err",
                                 !.val = r.result.val,
                                 !.attempts = r.attempts]]
    /\ UNCHANGED <<quota, bots, configs, droplets, iaas, verAlloc, ids, hist, env, now>>
SpecRetry == InitRetry /\ [][NextRetry]_vars

\* the admin guard on its own, applied to each request and configured token
InitAuth ==
    /\ InitStore
    /\ pc = [p \in Procs |-> IF p = 1 THEN "admin" ELSE "idle"]
    /\ \E headers \in HeaderMaps, expected_token \in ExpectedTokens :
          loc = [p \in Procs |->
                   IF p = 1
                   THEN [IdleLoc EXCEPT !.op = "admin_request",
                                        !.headers = headers,
                                        !.expected_token = expected_token]
                   ELSE IdleLoc]
NextAuth == AdminGuard(1)
SpecAuth == InitAuth /\ [][NextAuth]_vars

\* ------------------------------------------------------------------ claims
Finished(p, op) == pc[p] = "done" /\ loc[p].op = op
AllQuiet == \A p \in Tasks : pc[p] \in {"idle", "done"}

\* C1: however create_bot calls interleave, the number of them that succeed
\* for an account never exceeds the account's limit, and neither does the
\* account's counter.
C1_QuotaSafety ==
    \A a \in Accounts :
        /\ Cardinality(hist.created) <= quota[a].max
        /\ quota[a].current <= quota[a].max

\* the limit is reached by successful calls and a further call is refused
C1_Witness ==
    \E p \in Tasks :
        /\ Finished(p, "create_bot") /\ loc[p].res = "AccountLimitReached"
        /\ Cardinality(hist.created) = quota[loc[p].acct].max
        /\ quota[loc[p].acct].max = 2

\* a create_bot call that returned an error other than RateLimited
CreateFailed(p) ==
    Finished(p, "create_bot") /\ loc[p].res \notin {"Ok", "RateLimited"}
CreateLeftNothing(p) ==
    loc[p].bot \notin DOMAIN bots /\ loc[p].delta = 0

OnlyCreatesAndDestroys == AllQuiet /\ ~hist.other

\* C3 as stated: after s successful create_bot calls and d destroy_bot calls on
\* distinct bots of them, the counter is s - d, and it is never negative.
C3_AsStated ==
    /\ quota["acct"].current >= 0
    /\ OnlyCreatesAndDestroys =>
         quota["acct"].current = Cardinality(hist.created) - Cardinality(hist.destroyed)

\* C3: the counter is s - d + f, where f counts the destroy_bot calls whose
\* decrement_bot_counter failed on every attempt (destroy_bot still returns Ok);
\* the counter is never negative.
C3_CounterTracks ==
    /\ quota["acct"].current >= 0
    /\ OnlyCreatesAndDestroys =>
         quota["acct"].current =
             Cardinality(hist.created) - Cardinality(hist.destroyed)
                 + Cardinality(hist.lost)

\* two bots created, one of them destroyed, one bot's worth of quota in use
C3_Witness ==
    /\ OnlyCreatesAndDestroys
    /\ Cardinality(hist.created) = 2 /\ Cardinality(hist.destroyed) = 1
    /\ hist.lost = {}
    /\ quota["acct"].current = 1

\* C4: with no store or IaaS failure at all, a destroy_bot call made after a
\* destroy_bot of the same bot has returned Ok returns Ok too and leaves the
\* account's counter as it found it.
C4_SecondDestroyIdle ==
    \A p \in Tasks :
        Finished(p, "destroy_bot") /\ loc[p].again /\ faults = 0
            => /\ loc[p].res \in {"Ok", "NotFound"}
               /\ loc[p].delta = 0
               /\ bots[loc[p].bot].status = "destroyed"

\* the step in which task p returns from a call of op
Returns(p, op) == pc[p] # "done" /\ pc'[p] = "done" /\ loc'[p].op = op

\* C5: whenever a config row is inserted, its version is strictly greater than
\* the version of every config already stored for the same bot (so the stored
\* versions of a bot are pairwise distinct).
C5_VersionsIncrease ==
    [][\A c \in DOMAIN configs' \ DOMAIN configs :
         \A d \in DOMAIN configs :
             configs[d].bot_id = configs'[c].bot_id
                 => configs'[c].version > configs[d].version]_vars

\* C7: when acknowledge_config reads a bot whose desired_config_version_id is
\* not the config_id it was called with (the config belonging to the bot), the
\* call returns ConfigVersionConflict carrying the acknowledged id and the
\* desired id, and neither that step nor the call's first step writes the bots
\* table.
C7_ConflictRefused ==
    [][\A p \in Tasks :
         /\ (pc[p] = "idle" /\ loc'[p].op = "acknowledge_config") => bots' = bots
         /\ ( /\ pc[p] = "ak_get_bot" /\ pc'[p] # "ak_get_bot"
              /\ faults' = faults
              /\ loc[p].bot \in DOMAIN bots
              /\ configs[loc[p].cfg].bot_id = loc[p].bot
              /\ bots[loc[p].bot].desired_config_version_id # loc[p].cfg )
            => /\ pc'[p] = "done"
               /\ loc'[p].res = "ConfigVersionConflict"
               /\ loc'[p].payload =
                      <<loc[p].cfg, bots[loc[p].bot].desired_config_version_id>>
               /\ bots' = bots]_vars

\* a stale config was acknowledged after a newer one had become desired
C7_Witness ==
    \E p \in Tasks :
        /\ Finished(p, "acknowledge_config")
        /\ loc[p].res = "ConfigVersionConflict"
        /\ loc[p].payload[2] \in DOMAIN configs
        /\ loc[p].payload[2] # loc[p].cfg

\* C8: with calls made one at a time, when acknowledge_config returns Ok the
\* bot's applied and desired config ids both equal config_id, and its status is
\* online if it was provisioning or pending when the call read it and is the
\* status the call read otherwise.
C8_AckApplies ==
    [][\A p \in Tasks :
         Returns(p, "acknowledge_config") /\ loc'[p].res = "Ok"
            => LET b == loc'[p].bot
                   c == loc'[p].cfg
                   was == loc'[p].snap.status
               IN  /\ b \in DOMAIN bots'
                   /\ bots'[b].applied_config_version_id = c
                   /\ bots'[b].desired_config_version_id = c
                   /\ bots'[b].status =
                          IF was \in {"provisioning", "pending"} THEN "online" ELSE was]_vars

\* a provisioning bot acknowledged its config and is online
C8_Witness ==
    \E p \in Tasks :
        /\ Finished(p, "acknowledge_config") /\ loc[p].res = "Ok"
        /\ loc[p].snap.status = "provisioning"
        /\ bots[loc[p].bot].status = "online"
        /\ bots[loc[p].bot].applied_config_version_id = loc[p].cfg

\* C6: no step changes the row of a bot whose status is destroyed.
C6_DestroyedTerminal ==
    [][\A b \in DOMAIN bots :
         bots[b].status = "destroyed" /\ b \in DOMAIN bots' => bots'[b] = bots[b]]_vars

\* C9: a stored registration token is "sha256:" followed by the hex digest of a
\* token that was issued, and is never an issued token itself.
C9_TokenStoredHashed ==
    \A b \in DOMAIN bots :
        LET stored == bots[b].registration_token IN
        stored # NoToken =>
            /\ \E t \in IssuedTokens : stored = <<"sha256:">> \o Sha256Hex(t)
            /\ stored \notin IssuedTokens

\* redeploy_bot has replaced the token stored by create_bot
C9_Witness ==
    \E p \in Tasks :
        /\ Finished(p, "redeploy_bot") /\ loc[p].res = "Ok"
        /\ loc[p].bot \in hist.created
        /\ bots[loc[p].bot].registration_token = <<"sha256:">> \o Sha256Hex(loc[p].tok)

\* C10: get_by_id_with_token(id, t) returns the bot if and only if the bot's
\* stored registration_token equals "sha256:" + hex(sha256(t)); otherwise it
\* returns NotFound.
C10_TokenIff ==
    [][\A p \in Tasks :
         Returns(p, "get_by_id_with_token") /\ faults' = faults
            => LET b == loc'[p].bot
                   digest == <<"sha256:">> \o Sha256Hex(loc'[p].tok)
                   matches == b \in DOMAIN bots /\ bots[b].registration_token = digest
               IN  /\ matches => loc'[p].res = "Ok"
                   /\ ~matches => loc'[p].res = "NotFound"]_vars

\* ------------------------------------------------------------------- C11
\* spawn_bot, called by create_bot, has had RateLimited from create_droplet and
\* now runs update_status(bot.id, Pending).await? and returns
RateLimitedReturn(p) ==
    /\ pc[p] = "sp_failed_status"
    /\ loc[p].caller = "create_bot"
    /\ loc[p].err = "RateLimited"
    /\ pc'[p] # pc[p]

\* create_bot returns RateLimited, the row is there with status pending and
\* the counter is not given back
RateLimitedKept(p) ==
    /\ pc'[p] = "done"
    /\ loc'[p].res = "RateLimited"
    /\ loc[p].bot \in DOMAIN bots'
    /\ bots'[loc[p].bot].status = "pending"
    /\ quota' = quota

\* C11 as stated: whenever the IaaS answers create_droplet of create_bot with
\* RateLimited, create_bot returns RateLimited, the bot row remains with
\* status pending and the quota counter stays incremented.
C11_AsStated ==
    [][\A p \in Tasks : RateLimitedReturn(p) => RateLimitedKept(p)]_vars

\* C11 amended: the same, when the update_status(Pending) write that follows
\* the 429 succeeds; when that write fails, create_bot does not return
\* RateLimited and goes on to its rollback.
C11_RateLimitedKeepsBot ==
    [][\A p \in Tasks :
          RateLimitedReturn(p) =>
             IF faults' = faults
             THEN RateLimitedKept(p)
             ELSE pc'[p] = "cb_rollback_delete" /\ loc'[p].err = "Repository"]_vars

C11_Witness ==
    \E p \in Tasks :
       /\ Finished(p, "create_bot")
       /\ loc[p].res = "RateLimited"
       /\ loc[p].bot \in DOMAIN bots
       /\ bots[loc[p].bot].status = "pending"
       /\ bots[loc[p].bot].droplet_id = NULL
       /\ quota[loc[p].acct].current >= 1

\* ------------------------------------------------------------------- C12
\* the droplet rows assigned to a bot
DropletsOf(ds, b) == {d \in DOMAIN ds : ds[d].bot_id = b}

\* C12: when a create_bot call returns success, exactly one droplet row has
\* the new bot's id as its bot_id, and the bot's droplet_id is that row's id.
C12_OneDropletPerBot ==
    [][\A p \in Tasks :
          Returns(p, "create_bot") /\ loc'[p].res = "Ok" =>
             /\ loc[p].bot \in DOMAIN bots'
             /\ bots'[loc[p].bot].droplet_id # NULL
             /\ DropletsOf(droplets', loc[p].bot) = {bots'[loc[p].bot].droplet_id}]_vars

\* ------------------------------------------------------------------- C13
\* a finished create_bot whose create_droplet succeeded and whose
\* droplet_repo.create then failed: the droplet exists at the IaaS, not as a row
InsertFailed(p) ==
    /\ Finished(p, "create_bot")
    /\ loc[p].drop # NULL
    /\ loc[p].drop \notin DOMAIN droplets

IncrementRefuses(p) ==
    /\ pc[p] = "cb_increment"
    /\ pc'[p] # pc[p]
    /\ faults' = faults
    /\ ~IncrementSucceeds(quota[loc[p].acct])

\* C20: when increment_bot_counter reports success = false, create_bot fails
\* with AccountLimitReached(max) and has had no side effect: no bot, config or
\* droplet row, no IaaS call, and the quota counter unchanged; the step before
\* it, the account lookup, has none either.
C20_LimitReachedNoEffect ==
    [][\A p \in Tasks :
          /\ IncrementRefuses(p) =>
                /\ pc'[p] = "done"
                /\ loc'[p].res = "AccountLimitReached"
                /\ loc'[p].payload = <<quota[loc[p].acct].max>>
                /\ UNCHANGED <<quota, bots, configs, droplets, iaas>>
          /\ pc[p] = "idle" /\ pc'[p] # "idle" /\ loc'[p].op = "create_bot" =>
                /\ pc'[p] \in {"cb_increment", "done"}
                /\ UNCHANGED <<quota, bots, configs, droplets, iaas>>]_vars

\* a refused create_bot on a full account whose counter still equals the limit
C20_Witness ==
    \E p \in Tasks :
       /\ Finished(p, "create_bot")
       /\ loc[p].res = "AccountLimitReached"
       /\ loc[p].payload = <<quota[loc[p].acct].max>>
       /\ quota[loc[p].acct].current = quota[loc[p].acct].max
       /\ quota[loc[p].acct].max >= 1
       /\ bots # <<>>
       /\ loc[p].bot \notin DOMAIN bots

\* ------------------------------------------------------------------- C14
\* C14: in every reachable state, the states between the store steps of
\* spawn_bot, destroy_bot and redeploy_bot included, a bot row whose droplet_id
\* is set refers to a droplet id for which a droplet row exists.
C14_DropletRowExists ==
    \A b \in DOMAIN bots :
       bots[b].droplet_id # NULL => bots[b].droplet_id \in DOMAIN droplets

\* between mark_destroyed and update_droplet(None): the bot still points at a
\* droplet whose row is marked destroyed, while another call is inside spawn_bot
C14_Witness ==
    \E p, q \in Tasks :
       /\ pc[p] \in {"db_clear", "rd_latest"}
       /\ loc[p].bot \in DOMAIN bots
       /\ bots[loc[p].bot].droplet_id # NULL
       /\ droplets[bots[loc[p].bot].droplet_id].status = "destroyed"
       /\ pc[q] \in {"sp_assign", "sp_set_droplet"}

\* ------------------------------------------------------------------- C15
\* the statuses of a bot that has a droplet
DropletStatuses == {"provisioning", "online", "paused", "error"}

\* C15: in every state between operations, a bot's droplet_id is set if and
\* only if its status is one of provisioning, online, paused, error; stated
\* here for the runs in which no store or IaaS call has failed.
C15_DropletIffStatus ==
    AllQuiet /\ faults = 0 =>
       \A b \in DOMAIN bots :
          bots[b].droplet_id # NULL <=> bots[b].status \in DropletStatuses

\* ------------------------------------------------------------------- C16
\* C16: in every reachable state, a bot's applied_config_version_id, when set,
\* is a value that the bot's desired_config_version_id holds or held earlier.
C16_AppliedWasDesired ==
    \A b \in DOMAIN bots :
       bots[b].applied_config_version_id # NULL =>
          bots[b].applied_config_version_id \in bots[b].ever_desired

\* a bot whose applied config is an earlier desired one, not the current
C16_Witness ==
    \E b \in DOMAIN bots :
       /\ bots[b].applied_config_version_id # NULL
       /\ bots[b].desired_config_version_id # bots[b].applied_config_version_id
       /\ bots[b].desired_config_version_id # NULL

\* ------------------------------------------------------------------- C17
\* C17: the write of create_bot_config sets the bot's desired_config_version_id
\* to the new config and leaves applied_config_version_id at the value it holds
\* at the moment of the write, however acknowledge_config calls on the same bot
\* interleave with it; stated here for the runs in which no call has failed.
C17_AppliedLeftAlone ==
    [][\A p \in Tasks :
          /\ pc[p] = "cc_set_desired"
          /\ pc'[p] = "done" /\ loc'[p].res = "Ok"
          /\ loc[p].bot \in DOMAIN bots
          /\ faults = 0
          => /\ bots'[loc[p].bot].desired_config_version_id = loc[p].cfg
             /\ bots'[loc[p].bot].applied_config_version_id =
                   bots[loc[p].bot].applied_config_version_id]_vars

\* ------------------------------------------------------------------- C18
\* the step on which check_stale_bots returns Ok(stale_bots)
SweepReturnsOk ==
    /\ pc[Sweeper] = "sw_mark"
    /\ pc'[Sweeper] = "done"
    /\ loc'[Sweeper].res = "Ok"

\* the bots of table bs that are online with no heartbeat or one older than t
StaleAt(bs, t) ==
    {b \in DOMAIN bs :
        /\ bs[b].status = "online"
        /\ \/ bs[b].last_heartbeat_at = NULL
           \/ bs[b].last_heartbeat_at # NULL /\ bs[b].last_heartbeat_at < t}

\* C18: check_stale_bots(timeout), run with no other call in between, sets to
\* error exactly the bots that were online with last_heartbeat_at null or older
\* than now minus timeout, returns exactly those bots, and leaves every other
\* bot as it was.
C18_SweepMarksStale ==
    [][SweepReturnsOk =>
          LET l == loc'[Sweeper]
              stale == StaleAt(l.pre, l.at - l.timeout)
          IN  /\ {l.stale_bots[i] : i \in DOMAIN l.stale_bots} = stale
              /\ Len(l.stale_bots) = Cardinality(stale)
              /\ DOMAIN bots' = DOMAIN l.pre
              /\ \A b \in DOMAIN bots' :
                    bots'[b] = IF b \in stale
                               THEN [l.pre[b] EXCEPT !.status = "error"]
                               ELSE l.pre[b]]_vars

\* a run that found a bot with an old heartbeat, marked it, and left another
\* bot alone
C18_Witness ==
    /\ Finished(Sweeper, "check_stale_bots")
    /\ loc[Sweeper].res = "Ok"
    /\ \E b1, b2 \in DOMAIN bots :
          /\ b1 # b2
          /\ loc[Sweeper].stale_bots = <<b1>>
          /\ loc[Sweeper].pre[b1].last_heartbeat_at # NULL
          /\ bots[b1].status = "error"
          /\ bots[b2] = loc[Sweeper].pre[b2]

\* ------------------------------------------------------------------- C19
\* a run of check_stale_bots begins right after a successful run, with the
\* same timeout, no time passed and no bot changed since
SecondSweepBegins ==
    /\ pc[Sweeper] = "done"
    /\ loc[Sweeper].op = "check_stale_bots"
    /\ loc[Sweeper].res = "Ok"
    /\ pc'[Sweeper] = "sw_mark"
    /\ loc'[Sweeper].timeout = loc[Sweeper].timeout
    /\ loc'[Sweeper].at = loc[Sweeper].at
    /\ bots = loc[Sweeper].post

AsciiWhitespace == {" ", "\t"}

\* C21: for every input string, sanitize_bot_name returns a string of at most
\* 64 code points, made only of characters from [A-Za-z0-9 _-], with no
\* leading or trailing ASCII whitespace.
C21_SanitizedName ==
    Finished(1, "sanitize_bot_name") =>
       LET out == loc[1].payload IN
          /\ Len(out) <= 64
          /\ \A i \in DOMAIN out : out[i] \in AllowedChars
          /\ out # <<>> => /\ out[1] \notin AsciiWhitespace
                           /\ out[Len(out)] \notin AsciiWhitespace

\* ------------------------------------------------------------------- C22
\* C22: the config_ack endpoint answers with status 409 whenever
\* acknowledge_config fails with ConfigVersionConflict.
C22_ConflictIs409 ==
    \A p \in Tasks :
       Finished(p, "acknowledge_config") /\ loc[p].res = "ConfigVersionConflict"
          => loc[p].http = 409

C24_MaxBotsFollowsTier ==
    \A a \in Accounts : quota[a].max = TierMaxBots(quota[a].subscription_tier)
C24_Witness ==
    \E p \in Tasks, a \in Accounts :
       /\ Finished(p, "update_subscription") /\ loc[p].res = "Ok"
       /\ quota[a].subscription_tier = "free"
       /\ quota[a].current = 2
       /\ \E q \in Tasks : pc[q] \notin {"idle", "done"}

\* ------------------------------------------------------------------- C25
\* C25: for a given bot, the version of the config that
\* desired_config_version_id references never decreases: no step takes desired
\* from a config of version v to a config of a lower version.
\* only create_bot_config and acknowledge_config calls are under way
OnlyConfigCalls ==
    \A p \in Tasks :
       pc[p] = "idle" \/ loc[p].op \in {"create_bot_config", "acknowledge_config"}
C25_DesiredVersionMonotone ==
    [][OnlyConfigCalls /\ OnlyConfigCalls' =>
         \A b \in DOMAIN bots \cap DOMAIN bots' :
            LET old == bots[b].desired_config_version_id
                new == bots'[b].desired_config_version_id
            IN old \in DOMAIN configs /\ new \in DOMAIN configs'
                  => configs'[new].version >= configs[old].version]_vars

\* ------------------------------------------------------------------- C26
\* C26: in destroy_bot an IaaS destroy_droplet answer of Ok or NotFound (the
\* IaaS call did not fail) lets the call go on to mark_destroyed; any other
\* answer makes destroy_bot return that error, and neither that step nor the
\* call's first step writes the bot's row, the droplet rows or the counter.
C26_IaasAnswerDecides ==
    [][\A p \in Tasks :
         /\ pc[p] = "db_iaas" /\ pc'[p] # "db_iaas" =>
               IF faults' = faults
               THEN pc'[p] = "db_mark"
               ELSE /\ pc'[p] = "done"
                    /\ loc'[p].res = "DigitalOcean"
                    /\ iaas' = iaas
                    /\ <<bots, droplets, quota>>' = <<bots, droplets, quota>>
         /\ pc[p] = "idle" /\ pc'[p] = "db_iaas" =>
               <<bots, droplets, quota>>' = <<bots, droplets, quota>>]_vars
C26_Witness ==
    \E p \in Tasks :
       /\ Finished(p, "destroy_bot") /\ loc[p].res = "DigitalOcean"
       /\ bots[loc[p].bot].droplet_id = loc[p].drop
       /\ iaas[loc[p].drop] # "gone"

\* ------------------------------------------------------------------- C27
\* C27: when a destroy_bot call on a bot that was not destroyed has read the
\* bot and then failed, and the only failure so far is that call's, a later
\* destroy_bot call that finds the same bot (not yet destroyed) returns
\* success and leaves the bot
\* destroyed with droplet_id cleared and its droplet row marked destroyed, the
\* two calls together having taken exactly one from the account's counter.
FailedDestroy(q) ==
    /\ Finished(q, "destroy_bot")
    /\ loc[q].res \in {"Repository", "DigitalOcean"}
    /\ loc[q].snap # NoSnap
    /\ loc[q].snap.status # "destroyed"
C27_DestroyAgainCompletes ==
    [][\A p, q \in Tasks :
         /\ FailedDestroy(q)
         /\ Returns(p, "destroy_bot")
         /\ loc'[p].bot = loc[q].bot
         /\ loc'[p].snap.status # "destroyed"
         /\ faults' = 1
         => /\ loc'[p].res = "Ok"
            /\ bots'[loc[q].bot].status = "destroyed"
            /\ bots'[loc[q].bot].droplet_id = NULL
            /\ loc[q].drop # NULL => droplets'[loc[q].drop].status = "destroyed"
            /\ loc[q].delta + loc'[p].delta = -1]_vars
C27_Witness ==
    \E p, q \in Tasks :
       /\ FailedDestroy(q)
       /\ loc[q].res = "Repository"
       /\ loc[q].drop # NULL
       /\ Finished(p, "destroy_bot") /\ loc[p].res = "Ok"
       /\ loc[p].bot = loc[q].bot
       /\ loc[p].snap.droplet_id = NULL
       /\ faults = 1

\* ------------------------------------------------------------------- C28
\* C28: in every quiescent state reached by create_bot, destroy_bot, pause_bot,
\* resume_bot and redeploy_bot calls in which no call failed, an account's
\* current_count is the number of its bot rows whose status is not destroyed.
LiveBots(a) ==
    {b \in DOMAIN bots : bots[b].account_id = a /\ bots[b].status # "destroyed"}
C28_CounterIsLiveBots ==
    AllQuiet /\ faults = 0 =>
       \A a \in Accounts : quota[a].current = Cardinality(LiveBots(a))

\* ------------------------------------------------------------------- C29
\* C29: in a run where no IaaS or store call failed, once every call has
\* returned (calls on the same bot may have run concurrently), every droplet
\* created at the IaaS and not destroyed there is the droplet_id of some bot
\* whose status is not destroyed.
C29_NoOrphanDroplet ==
    AllQuiet /\ faults = 0 =>
       \A d \in DOMAIN iaas :
          iaas[d] # "gone" =>
             \E b \in DOMAIN bots :
                bots[b].droplet_id = d /\ bots[b].status # "destroyed"

\* ------------------------------------------------------------------- C30
\* C30: redeploy_bot goes, in this order, through: destroy the bot's existing
\* droplet at the IaaS and mark its row destroyed, load the bot's
\* highest-version stored config, clear the droplet_id it holds, run spawn; so
\* when it issues create_droplet the old droplet's destroy has returned (the
\* droplet is gone at the IaaS and its row is marked destroyed).
Redeploying(p) == loc[p].op = "redeploy_bot" /\ pc[p] \notin {"idle", "done"}
C30_RedeployOrder ==
    [][\A p \in Tasks :
         Redeploying(p) /\ pc'[p] # pc[p] /\ pc'[p] # "done" =>
            LET old == loc[p].snap.droplet_id IN
            /\ pc[p] = "rd_iaas" => pc'[p] = "rd_mark" /\ iaas'[old] = "gone"
            /\ pc[p] = "rd_mark" =>
                  pc'[p] = "rd_latest" /\ droplets'[old].status = "destroyed"
            /\ pc[p] = "rd_latest" =>
                  /\ pc'[p] = "sp_status"
                  /\ loc'[p].drop = NULL
                  /\ loc'[p].cfg \in DOMAIN configs
                  /\ \A c \in DOMAIN configs :
                        configs[c].bot_id = loc[p].bot
                           => configs[c].version <= configs[loc'[p].cfg].version
            /\ pc[p] = "sp_create_droplet" /\ old # NULL =>
                  iaas[old] = "gone" /\ droplets[old].status = "destroyed"]_vars
C30_Witness ==
    \E p \in Tasks :
       /\ loc[p].op = "redeploy_bot" /\ pc[p] = "sp_insert_droplet"
       /\ loc[p].snap.droplet_id # NULL
       /\ iaas[loc[p].snap.droplet_id] = "gone"
       /\ iaas[loc[p].drop] = "new"

\* ------------------------------------------------------------------- C31
\* C31: when redeploy_bot returns, with success or with an error, the bot's
\* stored droplet_id is either null or the id of a droplet whose row is not
\* marked destroyed.
C31_RedeployLeavesLiveDroplet ==
    [][\A p \in Tasks :
         Returns(p, "redeploy_bot") /\ loc'[p].bot \in DOMAIN bots' =>
            LET d == bots'[loc'[p].bot].droplet_id IN
               \/ d = NULL
               \/ d \in DOMAIN droplets' /\ droplets'[d].status # "destroyed"]_vars

\* ------------------------------------------------------------------- C32
\* C32: a bot's status becomes online only by acknowledge_config writing it
\* over provisioning or pending, or by resume_bot writing it over paused; under
\* every interleaving acknowledge_config never moves a bot whose status is
\* error, paused or destroyed to online.
C32_OnlineOnlyFrom ==
    [][\A b \in DOMAIN bots \cap DOMAIN bots' :
         bots[b].status # "online" /\ bots'[b].status = "online" =>
            \E p \in Tasks :
               /\ loc[p].bot = b
               /\ \/ pc[p] = "ak_status" /\ bots[b].status \in {"provisioning", "pending"}
                  \/ pc[p] = "rs_status" /\ bots[b].status = "paused"]_vars

\* ------------------------------------------------------------------- C33
\* C33: resume_bot writes status online, and returns Ok, only when the status
\* it read was paused, the bot has a droplet, and the IaaS reported the droplet
\* off (and the reboot succeeded) or active; in every other case it returns an
\* error and no step of the call writes the bots table.
C33_ResumeOnlyPaused ==
    [][\A p \in Tasks :
         loc'[p].op = "resume_bot" /\ pc'[p] # pc[p] =>
            LET l == loc'[p] IN
            /\ pc'[p] = "rs_reboot" => pc[p] = "rs_get_droplet" /\ iaas[l.drop] = "off"
            /\ pc'[p] = "rs_status" =>
                  /\ l.snap.status = "paused" /\ l.drop # NULL
                  /\ \/ pc[p] = "rs_get_droplet" /\ iaas[l.drop] = "active"
                     \/ /\ pc[p] = "rs_reboot" /\ faults' = faults
                        /\ iaas[l.drop] = "off" /\ iaas'[l.drop] = "active"
            /\ IF pc'[p] = "done" /\ l.res = "Ok"
               THEN /\ pc[p] = "rs_status"
                    /\ bots' = UpdateStatus(bots, l.bot, "online")
               ELSE bots' = bots]_vars
C33_Witness ==
    \E p \in Tasks :
       /\ Finished(p, "resume_bot") /\ loc[p].res = "Ok"
       /\ bots[loc[p].bot].status = "online"
       /\ iaas[loc[p].drop] = "active"
       /\ faults = 0

\* ------------------------------------------------------------------- C34
\* C34: check_stale_bots writes status error only to a bot that, at the moment
\* of that write, is online with a heartbeat that is missing or older than the
\* run's timeout: a bot paused or freshly heartbeated since the run's query is
\* not overwritten with error.
C34_ErrorOnlyIfStillStale ==
    [][pc[Sweeper] = "sw_mark" /\ loc'[Sweeper] # loc[Sweeper] /\ bots' # bots =>
          LET l == loc[Sweeper] IN
             IsStale(bots[Head(l.todo)], now - l.timeout)]_vars

\* ------------------------------------------------------------------- C35
\* C35: get_by_id_with_token called with an issued token whose digest is not
\* the bot's stored registration_token is refused: once spawn has stored a new
\* token for the bot, every token issued before no longer authenticates it.
C35_OldTokenRefused ==
    [][\A p \in Tasks :
         Returns(p, "get_by_id_with_token") =>
            LET b == loc'[p].bot
                t == loc'[p].tok
            IN  /\ t \in IssuedTokens
                /\ b \in DOMAIN bots
                /\ bots[b].registration_token # hash_registration_token(t)
                => loc'[p].res # "Ok"]_vars
\* the token create_bot issued is presented after redeploy_bot stored another
C35_Witness ==
    \E p \in Tasks :
       /\ Finished(p, "get_by_id_with_token") /\ loc[p].res = "NotFound"
       /\ loc[p].bot \in DOMAIN bots /\ loc[p].bot \in hist.created
       /\ loc[p].tok = generate_registration_token(1)
       /\ bots[loc[p].bot].registration_token =
             hash_registration_token(generate_registration_token(2))
       /\ faults = 0

\* ------------------------------------------------------------------- C36
\* C36: destroy_bot returns Ok, the bot having been marked destroyed by its
\* delete step, whether decrement_bot_counter succeeded or failed on all its
\* attempts (then the counter is left as it was); when mark_destroyed,
\* update_droplet or delete fails on all its attempts, destroy_bot returns that
\* error and the call has not changed the counter.
C36_DecrementFailureIsOk ==
    [][\A p \in Tasks :
         loc'[p].op = "destroy_bot" /\ pc'[p] # pc[p] =>
            LET l == loc'[p]
                failed == faults' # faults
            IN  /\ pc'[p] = "db_decrement" =>
                      /\ pc[p] = "db_delete"
                      /\ l.bot \in DOMAIN bots' => bots'[l.bot].status = "destroyed"
                /\ pc[p] = "db_decrement" =>
                      /\ pc'[p] = "done" /\ l.res = "Ok" /\ l.lost = failed
                      /\ quota'[l.acct] =
                            IF failed THEN quota[l.acct]
                            ELSE DecrementBotCounter(quota[l.acct])
                /\ pc[p] \in {"db_mark", "db_clear", "db_delete"} /\ failed =>
                      /\ pc'[p] = "done" /\ l.res = "Repository"
                      /\ quota' = quota /\ l.delta = 0]_vars
C36_Witness ==
    \E p \in Tasks :
       /\ Finished(p, "destroy_bot") /\ loc[p].res = "Ok" /\ loc[p].lost
       /\ bots[loc[p].bot].status = "destroyed"
       /\ quota[loc[p].acct].current = 1
       /\ faults = 1

\* ------------------------------------------------------------------- C37
\* C37: a bot row leaves the store only in the rollback of the create_bot call
\* that was creating that bot; destroy_bot only marks the row destroyed, and
\* the row of a bot for which create_bot returned Ok is never removed.
C37_RowRemovedOnlyByRollback ==
    [][\A b \in DOMAIN bots \ DOMAIN bots' :
         /\ \E p \in Tasks :
               /\ loc[p].op = "create_bot" /\ loc[p].bot = b
               /\ pc[p] = "cb_rollback_delete" /\ pc'[p] # pc[p]
         /\ b \notin hist.created]_vars
C37_Witness ==
    /\ \E p \in Tasks :
          /\ Finished(p, "create_bot") /\ loc[p].res # "Ok"
          /\ loc[p].bot # NULL /\ loc[p].bot \notin DOMAIN bots
    /\ \E b \in hist.created : b \in DOMAIN bots /\ bots[b].status = "destroyed"

\* ------------------------------------------------------------------- C38
\* C38: retry_with_backoff returns after invoking the operation at most 3
\* times: it returns the first success (with that invocation's value) without
\* a further attempt, and when every attempt fails it has made exactly 3
\* attempts and returns the error of the last one.
C38_RetryTerminates ==
    /\ pc[1] = "retry" => ENABLED NextRetry
    /\ Finished(1, "retry_with_backoff") =>
          LET outs == loc[1].outs
              n == loc[1].attempts
              oks == {i \in 1..3 : outs[i].ok}
          IN /\ n \in 1..3
             /\ loc[1].val = outs[n].val
             /\ oks # {} => /\ n \in oks
                            /\ \A i \in oks : n <= i
                            /\ loc[1].res = "Ok"
             /\ oks = {} => n = 3 /\ loc[1].res = "Err"
\* three failures with three different errors: the third error is returned
C38_Witness ==
    /\ Finished(1, "retry_with_backoff")
    /\ \A i \in 1..3 : ~loc[1].outs[i].ok /\ loc[1].outs[i].val = i
    /\ loc[1].res = "Err" /\ loc[1].val = 3 /\ loc[1].attempts = 3

\* ------------------------------------------------------------------- C39
\* C39: every operation of the IaaS adapter (create, get, destroy, shutdown,
\* reboot) sends at most 3 HTTP requests; a request is followed by another
\* only if it ended in a transport error or a response of status 500, 502 or
\* 503; and a response of status 429 is the last one: the operation returns
\* RateLimited without retrying.
C39_AdapterRetries ==
    LET outs == loc[1].outs
    IN /\ Len(outs) <= 3
       /\ Len(outs) = loc[1].attempts
       /\ \A i \in 1..Len(outs) :
             /\ i < Len(outs) => outs[i] \in {0, 500, 502, 503}
             /\ outs[i] = 429 => /\ i = Len(outs)
                                 /\ pc[1] = "done" /\ loc[1].res = "RateLimited"
\* a reboot retried after a 500 and after a transport error, then rate-limited
C39_Witness ==
    /\ pc[1] = "done" /\ loc[1].op = "reboot_droplet"
    /\ loc[1].outs = <<500, 0, 429>>
    /\ loc[1].res = "RateLimited"

\* ------------------------------------------------------------------- C40
QuotaFrameOps ==
    {"pause_bot", "resume_bot", "redeploy_bot", "create_bot_config",
     "acknowledge_config", "record_heartbeat", "check_stale_bots"}
\* C40: no step of pause_bot, resume_bot, redeploy_bot (its spawn included),
\* create_bot_config, acknowledge_config, record_heartbeat or check_stale_bots
\* changes any account's counter or limit, whether the step succeeds or fails.
C40_QuotaFrame ==
    [][\A p \in Procs :
          (pc'[p] # pc[p] \/ loc'[p] # loc[p]) /\ loc'[p].op \in QuotaFrameOps
             => quota' = quota]_vars
\* a redeploy_bot whose spawn was rate-limited has returned, and the account's
\* counter still counts the one bot created
C40_Witness ==
    \E p \in Tasks :
       /\ Finished(p, "redeploy_bot") /\ loc[p].res = "RateLimited"
       /\ hist.created = {loc[p].bot}
       /\ quota[bots[loc[p].bot].account_id].current = 1

====
